---- MODULE Spec2Model ----
(***************************************************************************)
(* Model of the kinetic Monte Carlo simulation of a motor on a chromatin   *)
(* landscape: nucleo.py (one-step and two-step engines) and marcand.py     *)
(* (in-position engine).                                                   *)
(*                                                                         *)
(* Conventions.  Python arrays are TLA+ sequences; the Python index i is   *)
(* the TLA+ index i+1 (operator At).  Acceptance probabilities are         *)
(* integers in units of 1/One, so that One stands for 1.0 and 0 for 0.0.   *)
(***************************************************************************)
EXTENDS Integers, Sequences, FiniteSets, TLC

VARIABLES
    fn,       \* the function being run
    args,     \* its arguments
    pc,       \* "call" before it runs, then "return" or "raise"
    raw,      \* alpha_matrix / landscape before the minimum-run correction
    ret,      \* the returned value
    t,        \* clock of the trajectory being simulated
    x,        \* position of the motor
    prev_x,   \* position at the previous filling of the dense row
    ox,       \* start position of the trajectory
    i0,       \* first slot of the dense row not filled yet
    results,  \* dense result row of the trajectory
    t_list,   \* recorded times of the trajectory
    x_list    \* recorded positions of the trajectory

callVars == <<fn, args, pc, raw, ret>>
engVars == <<t, x, prev_x, ox, i0, results, t_list, x_list>>
vars == <<fn, args, pc, raw, ret, t, x, prev_x, ox, i0, results, t_list, x_list>>

\* the engine variables while no engine runs
EngineIdle ==
    /\ t = 0 /\ x = 0 /\ prev_x = 0 /\ ox = 0 /\ i0 = 0
    /\ results = <<>> /\ t_list = <<>> /\ x_list = <<>>

----------------------------------------------------------------------------
(* Bounds of the model *)

MaxLmax == 5      \* longest chromatin of the nucleo landscapes
MaxS == 2         \* largest obstacle size s
MaxL == 2         \* largest linker size l
MaxBpmin == 3     \* largest minimum-run threshold
MaxNt == 2        \* largest number of trajectories (rows)
MaxArr == 5       \* longest array handed directly to binding_length
MaxPad == 2       \* largest d and D of a marcand landscape
MaxGap == 2       \* largest gap of a marcand landscape
MaxRap == 2       \* largest rap1_l / lacO_l of a marcand landscape
MaxN == 2         \* largest number N of obstacle groups of a marcand landscape

(* Program constants *)

Lmin == 0         \* first point of chromatin
bps == 1          \* base pairs per site
LacIBefore == 3   \* free sites before a LacI block
LacIAfter == 8    \* free sites after a LacI block

----------------------------------------------------------------------------
(* Helpers: Python and numpy primitives *)

RECURSIVE Fact(_)
Fact(n) == IF n <= 1 THEN 1 ELSE n * Fact(n - 1)

\* 1.0 as an acceptance probability: divisible by every l + s of the model,
\* so that the mean of alpha_constant is exact.
One == Fact(MaxS + MaxL)

Min(a, b) == IF a < b THEN a ELSE b
Max(a, b) == IF a > b THEN a ELSE b

\* a[i] for a Python index i >= 0
At(a, i) == a[i + 1]

\* np.full(n, v) / n * [v]
Full(n, v) == [k \in 1..n |-> v]

\* np.tile(pattern, n) for a one-dimensional pattern
RECURSIVE Tile(_, _)
Tile(pattern, n) == IF n <= 0 THEN <<>> ELSE pattern \o Tile(pattern, n - 1)

\* the elements of a finite set of integers in increasing order
RECURSIVE SortedSeq(_)
SortedSeq(S) ==
    IF S = {} THEN <<>>
    ELSE LET m == CHOOSE u \in S : \A w \in S : u <= w
         IN <<m>> \o SortedSeq(S \ {m})

\* np.where(d == v)[0]: the Python indices where d holds v, increasing
Where(d, v) == SortedSeq({k - 1 : k \in {j \in 1..Len(d) : d[j] = v}})

\* a slice bound brought into 0..n the way Python does (a negative bound
\* counts from the end, a bound past the end is clipped)
PyBound(n, b) == IF b < 0 THEN Max(b + n, 0) ELSE Min(b, n)

\* a[start:end] = v on a copy
SliceAssign(a, start, end, v) ==
    [k \in 1..Len(a) |->
        IF PyBound(Len(a), start) <= k - 1 /\ k - 1 < PyBound(Len(a), end)
        THEN v ELSE a[k]]

\* the non-decreasing sequences of length n over lo..hi: the possible values
\* of np.sort(np.random.randint(lo, hi + 1, n))
RECURSIVE SortedDraws(_, _, _)
SortedDraws(n, lo, hi) ==
    IF n = 0 THEN {<<>>}
    ELSE UNION {{<<v>> \o r : r \in SortedDraws(n - 1, v, hi)} : v \in lo..hi}

----------------------------------------------------------------------------
(* binding_length: the minimum-run correction (nucleo.py and marcand.py)   *)

\* mask = alpha_array == alphaf, as integers
Mask(alpha_array, alphaf) ==
    [k \in 1..Len(alpha_array) |-> IF alpha_array[k] = alphaf THEN 1 ELSE 0]

\* np.diff(np.concatenate(([0], mask.astype(int), [0])))
Diffs(mask) ==
    LET padded == <<0>> \o mask \o <<0>>
    IN [j \in 1..(Len(mask) + 1) |-> padded[j + 1] - padded[j]]

\* zip(starts, ends)
Zip(starts, ends) ==
    [k \in 1..Min(Len(starts), Len(ends)) |-> <<starts[k], ends[k]>>]

\* the test of the loop body: length = end - start; if length < bpmin
TooShortOffByOne(start, end, bpmin) == end - start + 1 < bpmin
TooShortOrEqual(start, end, bpmin) == end - start <= bpmin
TooShort(start, end, bpmin) == end - start < bpmin

\* the for loop over zip(starts, ends), from pair k on
RECURSIVE ReplaceRuns(_, _, _, _, _)
ReplaceRuns(alpha_array, pairs, k, alphao, bpmin) ==
    IF k > Len(pairs) THEN alpha_array
    ELSE LET start == pairs[k][1]
             end == pairs[k][2]
             next == IF TooShort(start, end, bpmin)
                     THEN SliceAssign(alpha_array, start, end, alphao)
                     ELSE alpha_array
         IN ReplaceRuns(next, pairs, k + 1, alphao, bpmin)

binding_length(alpha_list, alphao, alphaf, bpmin) ==
    LET alpha_array == alpha_list
        diffs == Diffs(Mask(alpha_array, alphaf))
        starts == Where(diffs, 1)
        ends == Where(diffs, -1)
    IN ReplaceRuns(alpha_array, Zip(starts, ends), 1, alphao, bpmin)

----------------------------------------------------------------------------
(* Landscape generators of nucleo.py *)

\* one sorted draw of obstacle positions decides the row
alpha_random_at(s, l, alphao, alphaf, L_min, Lmax, bps_, sorted) ==
    LET alpha_array == Full((Lmax - L_min) \div bps_, alphaf)
        modified == [k \in 1..Len(sorted) |-> sorted[k] + (k - 1) * s]
        Fill[k \in 0..Len(sorted)] ==
            IF k = 0 THEN alpha_array
            ELSE SliceAssign(Fill[k - 1], modified[k], modified[k] + s, alphao)
    IN Fill[Len(sorted)]

\* T and max_pos of alpha_random
RandomT(s, l, Lmax) == Lmax \div (l + s)
RandomMaxPos(s, l, Lmax) == Lmax - RandomT(s, l, Lmax) * s

\* every row alpha_random can return
alpha_random(s, l, alphao, alphaf, L_min, Lmax, bps_) ==
    {alpha_random_at(s, l, alphao, alphaf, L_min, Lmax, bps_, sorted) :
        sorted \in SortedDraws(RandomT(s, l, Lmax), 0, RandomMaxPos(s, l, Lmax))}

alpha_periodic(s, l, alphao, alphaf, Lmin_, Lmax, bps_) ==
    LET N == ((Lmax - Lmin_) \div bps_) \div (l + s)
        residue == Lmax - N * (l + s)
        pattern == Full(l, alphaf) \o Full(s, alphao)
    IN Tile(pattern, N) \o Full(residue, alphaf)

alpha_constant(s, l, alphao, alphaf, Lmin_, Lmax, bps_) ==
    LET value == (alphao * s + alphaf * l) \div (l + s)
        size == (Lmax - Lmin_) \div bps_
    IN Full(size, value)

alpha_functions == {"periodic", "one_random", "ntrandom", "constantmean"}

\* the matrices the generation step of alpha_matrix_calculation can build
GeneratedMatrices(a) ==
    CASE a.alpha_choice = "periodic" ->
           {Full(a.nt, alpha_periodic(a.s, a.l, a.alphao, a.alphaf, Lmin, a.Lmax, bps))}
      [] a.alpha_choice = "one_random" ->
           {Full(a.nt, row) : row \in alpha_random(a.s, a.l, a.alphao, a.alphaf, Lmin, a.Lmax, bps)}
      [] a.alpha_choice = "constantmean" ->
           {Full(a.nt, alpha_constant(a.s, a.l, a.alphao, a.alphaf, Lmin, a.Lmax, bps))}
      [] a.alpha_choice = "ntrandom" ->
           [1..a.nt -> alpha_random(a.s, a.l, a.alphao, a.alphaf, Lmin, a.Lmax, bps)]

\* the correction applied to every row
CorrectRows(matrix, alphao, alphaf, bpmin) ==
    [i \in 1..Len(matrix) |-> binding_length(matrix[i], alphao, alphaf, bpmin)]

\* alpha_matrix_calculation without the test of alpha_choice
alpha_matrix_calculation_unchecked ==
    /\ fn = "alpha_matrix_calculation"
    /\ pc = "call"
    /\ \E matrix \in IF args.alpha_choice \in alpha_functions
                      THEN GeneratedMatrices(args)
                      ELSE {Full(args.nt, Full(args.Lmax, args.alphaf))} :
          /\ raw' = matrix
          /\ ret' = CorrectRows(matrix, args.alphao, args.alphaf, args.bpmin)
    /\ pc' = "return"
    /\ UNCHANGED <<fn, args, engVars>>

alpha_matrix_calculation ==
    /\ fn = "alpha_matrix_calculation"
    /\ pc = "call"
    /\ \/ /\ args.alpha_choice \notin alpha_functions
          /\ pc' = "raise"
          /\ UNCHANGED <<raw, ret>>
       \/ /\ args.alpha_choice \in alpha_functions
          /\ \E matrix \in GeneratedMatrices(args) :
                /\ raw' = matrix
                /\ ret' = CorrectRows(matrix, args.alphao, args.alphaf, args.bpmin)
          /\ pc' = "return"
    /\ UNCHANGED <<fn, args, engVars>>

----------------------------------------------------------------------------
(* Landscape generator of marcand.py *)

Rap1Pair(rap1_l, alphao, alphaf) ==
    Full(rap1_l, alphao) \o <<alphaf>> \o Full(rap1_l, alphao)

unit(a) ==
    Full(a.d, a.alphaf)
    \o Tile(Rap1Pair(a.rap1_l, a.alphao, a.alphaf) \o Full(a.gap, a.alphaf), a.N - 1)
    \o Rap1Pair(a.rap1_l, a.alphao, a.alphaf)
    \o Full(a.D, a.alphaf)

base_pattern(a) ==
    Full(a.d, a.alphaf)
    \o Tile(Rap1Pair(a.rap1_l, a.alphao, a.alphaf)
            \o Full(LacIBefore, a.alphaf) \o Full(a.lacO_l, a.alphao)
            \o Full(LacIAfter, a.alphaf), a.N - 1)
    \o Rap1Pair(a.rap1_l, a.alphao, a.alphaf)
    \o Full(a.D, a.alphaf)

\* np.mean(unit), exact when the values are 0 and One and the length divides
\* One; rounded down otherwise
RECURSIVE SumSeq(_)
SumSeq(q) == IF q = <<>> THEN 0 ELSE Head(q) + SumSeq(Tail(q))

unit_mean(a) == SumSeq(unit(a)) \div Len(unit(a))

marcand_choices == {"array", "LacI", "constant", "constant_max"}

\* the landscape before the "Minimal condensin binding size" step
UncorrectedLandscape(a) ==
    CASE a.alpha_choice = "array" -> Full(a.nt, unit(a))
      [] a.alpha_choice = "LacI" -> Full(a.nt, base_pattern(a))
      [] a.alpha_choice = "constant" -> Full(a.nt, Full(Len(unit(a)), unit_mean(a)))
      [] a.alpha_choice = "constant_max" -> Full(a.nt, Full(Len(unit(a)), a.alphaf))

\* corrected_line = binding_length(landscape[0], alphaf, alphao, bpmin)
corrected_line(landscape, a) ==
    binding_length(landscape[1], a.alphaf, a.alphao, a.bpmin)

calculate_landscape ==
    /\ fn = "calculate_landscape"
    /\ pc = "call"
    /\ \/ /\ args.alpha_choice \notin marcand_choices
          /\ pc' = "raise"
          /\ UNCHANGED <<raw, ret>>
       \/ /\ args.alpha_choice \in marcand_choices
          /\ raw' = UncorrectedLandscape(args)
          /\ ret' = IF args.alpha_choice \in {"array", "LacI"}
                    THEN Full(args.nt, corrected_line(raw', args))
                    ELSE raw'
          /\ pc' = "return"
    /\ UNCHANGED <<fn, args, engVars>>

----------------------------------------------------------------------------
(* A direct call of binding_length *)

\* alpha_array = alpha_list.copy(): the caller's array after the call, given
\* the array the function worked on
AliasedInput(alpha_list, alpha_array) == alpha_array
CopiedInput(alpha_list, alpha_array) == alpha_list

call_binding_length ==
    /\ fn = "binding_length"
    /\ pc = "call"
    /\ raw' = <<args.alpha_list>>
    /\ ret' = binding_length(args.alpha_list, args.alphao, args.alphaf, args.bpmin)
    /\ args' = [args EXCEPT !.alpha_list = CopiedInput(args.alpha_list, ret')]
    /\ pc' = "return"
    /\ UNCHANGED <<fn, engVars>>

----------------------------------------------------------------------------
(* Inputs *)

AlphaValues == {0, One}

\* arrays over the two site values, up to MaxArr sites
Arrays(vals) == UNION {[1..n -> vals] : n \in 0..MaxArr}

\* the arrays of the documented examples (1 = free, 0 = obstacle)
ExampleSpec == <<1, 1, 0, 0, 1, 1, 1, 0, 1, 0, 0>>
ExampleDoc == <<0, 0, 1, 1, 0, 0, 0, 1, 1, 0, 0, 1, 0, 1, 0, 0, 1, 0>>
Scaled(q) == [k \in 1..Len(q) |-> q[k] * One]

BindingLengthArgs ==
    [alpha_list : Arrays(AlphaValues) \cup {Scaled(ExampleSpec), Scaled(ExampleDoc)},
     alphao : AlphaValues, alphaf : AlphaValues, bpmin : 0..MaxBpmin]

NucleoLandscapeArgs ==
    {a \in [alpha_choice : alpha_functions \cup {"unknown"},
            s : 0..MaxS, l : 0..MaxL, bpmin : 0..MaxBpmin,
            alphao : AlphaValues, alphaf : AlphaValues,
            Lmax : 1..MaxLmax, nt : 1..MaxNt] : a.l + a.s >= 1}

MarcandLandscapeArgs ==
    [alpha_choice : marcand_choices \cup {"unknown"},
     alphaf : {One}, alphao : {0},
     d : 0..MaxPad, D : 0..MaxPad, gap : 0..MaxGap,
     rap1_l : 1..MaxRap, lacO_l : 1..MaxRap, N : 1..MaxN,
     bpmin : 0..MaxBpmin, nt : 1..MaxNt]

InitLandscape ==
    /\ \/ fn = "binding_length" /\ args \in BindingLengthArgs
       \/ fn = "alpha_matrix_calculation" /\ args \in NucleoLandscapeArgs
       \/ fn = "calculate_landscape" /\ args \in MarcandLandscapeArgs
    /\ pc = "call"
    /\ raw = <<>>
    /\ ret = <<>>
    /\ EngineIdle

NextLandscape ==
    \/ call_binding_length
    \/ alpha_matrix_calculation
    \/ calculate_landscape

SpecLandscape == InitLandscape /\ [][NextLandscape]_vars

----------------------------------------------------------------------------
(* Properties of the landscapes *)

\* the maximal runs <<i, j>> (TLA+ indices) of the value v in row
MaximalRuns(row, v) ==
    {r \in (1..Len(row)) \X (1..Len(row)) :
        /\ r[1] <= r[2]
        /\ \A k \in r[1]..r[2] : row[k] = v
        /\ (r[1] = 1 \/ row[r[1] - 1] # v)
        /\ (r[2] = Len(row) \/ row[r[2] + 1] # v)}

RunLength(r) == r[2] - r[1] + 1

NoShortRun(row, v, bpmin) ==
    \A r \in MaximalRuns(row, v) : RunLength(r) >= bpmin

HasShortRun(row, v, bpmin) ==
    \E r \in MaximalRuns(row, v) : RunLength(r) < bpmin

\* the rows returned by the landscape function that ran
ReturnedRows == IF fn = "binding_length" THEN <<ret>> ELSE ret

\* C1: after binding_length (called directly, or on every row by
\* alpha_matrix_calculation) with alphao # alphaf, every maximal run of free
\* (alphaf) sites of every returned row has length >= bpmin.
C1_EveryFreeRunLongEnough ==
    (/\ pc = "return"
     /\ fn \in {"binding_length", "alpha_matrix_calculation"}
     /\ args.alphao # args.alphaf)
    => \A i \in 1..Len(ReturnedRows) :
          NoShortRun(ReturnedRows[i], args.alphaf, args.bpmin)

\* a generated matrix with a short free run has been corrected
C1_Witness ==
    /\ pc = "return"
    /\ fn = "alpha_matrix_calculation"
    /\ args.alpha_choice = "ntrandom"
    /\ args.alphao # args.alphaf
    /\ \E i \in 1..Len(raw) : HasShortRun(raw[i], args.alphaf, args.bpmin)
    /\ \E i \in 1..Len(ret) : \E k \in 1..Len(ret[i]) : ret[i][k] = args.alphaf

\* the input with every site of a maximal free run shorter than bpmin set to
\* alphao, and every other site unchanged
ShortRunsFilled(row, alphao, alphaf, bpmin) ==
    [k \in 1..Len(row) |->
        IF \E r \in MaximalRuns(row, alphaf) :
              r[1] <= k /\ k <= r[2] /\ RunLength(r) < bpmin
        THEN alphao ELSE row[k]]

\* C2: binding_length returns exactly the input with the sites of the
\* maximal free runs shorter than bpmin set to alphao, leaves its input array
\* as it was, and gives the two documented results.
C2_ExactlyShortRunsReplaced ==
    (pc = "return" /\ fn = "binding_length")
    => /\ ret = ShortRunsFilled(raw[1], args.alphao, args.alphaf, args.bpmin)
       /\ args.alpha_list = raw[1]
       /\ (/\ raw[1] = Scaled(ExampleSpec)
           /\ args.alphao = 0 /\ args.alphaf = One /\ args.bpmin = 3)
          => ret = Scaled(<<0, 0, 0, 0, 1, 1, 1, 0, 0, 0, 0>>)
       /\ (/\ raw[1] = Scaled(ExampleDoc)
           /\ args.alphao = 0 /\ args.alphaf = One /\ args.bpmin = 2)
          => ret = Scaled(<<0, 0, 1, 1, 0, 0, 0, 1, 1, 0, 0, 0, 0, 0, 0, 0, 0, 0>>)

\* the spec's scenario has run and changed the array
C2_Witness ==
    /\ pc = "return"
    /\ fn = "binding_length"
    /\ raw[1] = Scaled(ExampleSpec)
    /\ args.alphao = 0 /\ args.alphaf = One /\ args.bpmin = 3
    /\ ret # raw[1]

\* C3 (as claimed): in the modes 'array' and 'LacI' every row returned by
\* calculate_landscape has no maximal free run shorter than bpmin, and no
\* obstacle site of the uncorrected pattern has become free.
C3_FreeRunsCorrected ==
    (/\ pc = "return"
     /\ fn = "calculate_landscape"
     /\ args.alpha_choice \in {"array", "LacI"})
    => \A i \in 1..Len(ret) :
          /\ NoShortRun(ret[i], args.alphaf, args.bpmin)
          /\ \A k \in 1..Len(ret[i]) :
                raw[i][k] = args.alphao => ret[i][k] = args.alphao

----------------------------------------------------------------------------
(* Python indexing with negative indices *)

\* a[i] does not raise IndexError
PyIndexOk(a, i) == -Len(a) <= i /\ i < Len(a)

\* a[i], a negative i counting from the end
PyAt(a, i) == IF i >= 0 THEN a[i + 1] ELSE a[Len(a) + i + 1]

\* a[start:stop]
PySlice(a, start, stop) ==
    LET lo == PyBound(Len(a), start)
        hi == PyBound(Len(a), stop)
    IN [k \in 1..Max(hi - lo, 0) |-> a[lo + k]]

----------------------------------------------------------------------------
(* folding: the start position of a trajectory (nucleo.py and marcand.py)  *)

\* while landscape[from - k] != target: k += 1, started at k;
\* -1 when the scan leaves the array (IndexError)
RECURSIVE ScanBack(_, _, _, _)
ScanBack(landscape, from, k, target) ==
    IF ~PyIndexOk(landscape, from - k) THEN -1
    ELSE IF PyAt(landscape, from - k) # target
         THEN ScanBack(landscape, from, k + 1, target)
         ELSE k

\* np.random.randint(low, high) + 1
RandintPlusOneClosed(low, high) == {v + 1 : v \in low..high}
RandintPlusOne(low, high) == {v + 1 : v \in low..(high - 1)}

\* the values folding can return; {} when it raises IndexError.
\* The landscape is compared with the literals 1 and 0, here One and 0.
folding(landscape, first_origin) ==
    IF first_origin = 0 THEN {0}
    ELSE IF PyAt(landscape, first_origin) # 0 THEN {first_origin}
    ELSE LET back_on_obstacle == ScanBack(landscape, first_origin, 1, One)
             pos == first_origin - back_on_obstacle
             back_on_linker == ScanBack(landscape, pos, 1, 0)
         IN IF back_on_obstacle = -1 \/ back_on_linker = -1 THEN {}
            ELSE RandintPlusOne(first_origin - (back_on_obstacle + back_on_linker),
                                first_origin - back_on_obstacle)

call_folding ==
    /\ fn = "folding"
    /\ pc = "call"
    /\ \/ /\ folding(args.landscape, args.first_origin) = {}
          /\ pc' = "raise"
          /\ ret' = ret
       \/ /\ \E true_origin \in folding(args.landscape, args.first_origin) :
                ret' = true_origin
          /\ pc' = "return"
    /\ UNCHANGED <<fn, args, raw, engVars>>

\* landscapes of two site values, and the flat landscape of alpha_constant
MaxTrack == 5     \* longest landscape handed to folding

FoldingArgs ==
    {a \in [landscape : UNION {[1..n -> {0, One}] \cup {Full(n, One \div 2)} : n \in 1..MaxTrack},
            first_origin : 0..(MaxTrack - 1)] :
        a.first_origin < Len(a.landscape)}

InitFolding ==
    /\ fn = "folding"
    /\ args \in FoldingArgs
    /\ pc = "call"
    /\ raw = <<>>
    /\ ret = 0
    /\ EngineIdle

NextFolding == call_folding

SpecFolding == InitFolding /\ [][NextFolding]_vars

\* the origin sits on an obstacle and a permissive site lies before it
RunBeforeOrigin(landscape, o) ==
    /\ landscape[o + 1] = 0
    /\ \E k \in 1..o : landscape[k] = One

\* the maximal permissive run nearest before the origin o, as TLA+ indices
NearestRunBefore(landscape, o) ==
    LET last == CHOOSE k \in 1..o :
                   /\ landscape[k] = One
                   /\ \A m \in (k + 1)..o : landscape[m] # One
    IN CHOOSE r \in MaximalRuns(landscape, One) : r[2] = last

\* C7 (as claimed): folding returns origin itself on a permissive origin,
\* and otherwise, when a permissive run lies before the origin, an index of
\* the nearest such run: a permissive site inside 0..origin.
C7_FoldingInsideNearestRun ==
    (fn = "folding" /\ pc = "return")
    => /\ args.landscape[args.first_origin + 1] = One => ret = args.first_origin
       /\ RunBeforeOrigin(args.landscape, args.first_origin)
          => LET r == NearestRunBefore(args.landscape, args.first_origin)
             IN /\ 0 <= ret /\ ret <= args.first_origin
                /\ r[1] <= ret + 1 /\ ret + 1 <= r[2]
                /\ args.landscape[ret + 1] = One

\* folding raises only when no permissive run lies before the origin
C7_RaisesWithRun ==
    (fn = "folding" /\ pc = "raise")
    => ~RunBeforeOrigin(args.landscape, args.first_origin)

----------------------------------------------------------------------------
(* Time, rates and random draws of the engines                             *)
(*                                                                         *)
(* Times are whole ticks.  Sentinel stands for the float 1e308 and Inf for *)
(* the float inf; both are larger than every other time of the model.      *)
(* Rates are integers in units of 1/(W * One * BetaDen), W the sum of the  *)
(* kernel weights, so that the kernel p[d] = weight[d] / W sums to 1.      *)
(* A uniform draw r0 in [0, 1) is k / R0Den for k in 0..R0Den-1.           *)

MaxDelta == 2     \* longest finite waiting time, in ticks
R0Den == 4        \* resolution of the uniform draws
BetaDen == 2      \* beta and lmbda are multiples of 1/BetaDen
MaxTime == 3      \* largest tmax, in ticks
TrackLen == 4     \* number of sites Lmax of the engines' landscapes

Sentinel == 1000000
Inf == Sentinel + Sentinel
NaN == -1000000

\* float addition of two times
TAdd(a, b) ==
    IF a = Inf \/ b = Inf THEN Inf
    ELSE IF a = Sentinel /\ b = Sentinel THEN Inf
    ELSE IF a = Sentinel \/ b = Sentinel THEN Sentinel
    ELSE a + b

\* -np.log(np.random.rand()) / rate: inf when the rate is 0 or the draw is 0
WaitingTimes(rate) == IF rate = 0 THEN {Inf} ELSE (1..MaxDelta) \cup {Inf}

\* if np.isinf(v): v = 1e308
ClampDropped(v) == v
ClampToZero(v) == IF v = Inf THEN 0 ELSE v
Clamp(v) == IF v = Inf THEN Sentinel ELSE v

\* the sum of the kernel weights
KernelW(p) == SumSeq(p)

\* beta_matrix[_][x], as a rate
BetaRate(a) == a.beta * KernelW(a.p) * One

\* two numpy arrays can be multiplied elementwise (equal lengths, or one of
\* length 1, which is broadcast)
BroadcastOk(u, v) == Len(u) = Len(v) \/ Len(u) = 1 \/ Len(v) = 1

\* np.nansum(u * v)
SumProd(u, v) ==
    LET n == IF Len(u) = 1 THEN Len(v) ELSE Len(u)
        F[k \in 0..n] ==
            IF k = 0 THEN 0
            ELSE F[k - 1] + (IF Len(u) = 1 THEN u[1] ELSE u[k])
                          * (IF Len(v) = 1 THEN v[1] ELSE v[k])
    IN F[n]

\* the two slices of the total propensity at position pos, track end last
KernelSlice(a, pos, last) == PySlice(a.p, 1, last - pos)
LandscapeSlice(a, pos, last) == PySlice(a.alpha, pos + 1, last)

\* r_tot = beta + sum(p[1:(last - x)] * alpha[(x + 1):last])
RTot(a, pos, last) ==
    BetaRate(a) + BetaDen * SumProd(KernelSlice(a, pos, last), LandscapeSlice(a, pos, last))

\* r0 < beta / r_tot (a comparison with nan = 0/0 is False)
StallFiresOrEqual(a, r0, r_tot) == r_tot # 0 /\ r0 * r_tot <= BetaRate(a) * R0Den
StallFires(a, r0, r_tot) == r_tot # 0 /\ r0 * r_tot < BetaRate(a) * R0Den

\* (rp / r_tot) < r0
Below(rp, r_tot, r0) == r_tot # 0 /\ rp * R0Den < r0 * r_tot

\* the while loop choosing the rank of the jump, entered with di and rp;
\* -1 when an index leaves p or the landscape (IndexError)
RECURSIVE JumpRank(_, _, _, _, _, _, _)
JumpRank(a, pos, last, r0, r_tot, di, rp) ==
    IF Below(rp, r_tot, r0) /\ di < last - 1 - pos
    THEN IF PyIndexOk(a.p, di + 1) /\ PyIndexOk(a.alpha, pos + di + 1)
         THEN JumpRank(a, pos, last, r0, r_tot, di + 1,
                       rp + BetaDen * PyAt(a.p, di + 1) * PyAt(a.alpha, pos + di + 1))
         ELSE -1
    ELSE di

\* di = 1; rp = beta + p[di] * alpha[x + di]; while ...: the jump length
SelectJumpFromZero(a, pos, last, r0, r_tot) ==
    IF PyIndexOk(a.alpha, pos)
    THEN JumpRank(a, pos, last, r0, r_tot, 0,
                  BetaRate(a) + BetaDen * PyAt(a.p, 0) * PyAt(a.alpha, pos))
    ELSE -1
SelectJump(a, pos, last, r0, r_tot) ==
    IF PyIndexOk(a.alpha, pos + 1)
    THEN JumpRank(a, pos, last, r0, r_tot, 1,
                  BetaRate(a) + BetaDen * PyAt(a.p, 1) * PyAt(a.alpha, pos + 1))
    ELSE -1

\* int(np.floor(t / dt))
TimeIndex(time, dt) == time \div dt

\* results[_][i0:int(min(np.floor(tmax/dt), i) + 1)] = v
FillRowShort(row, from, i, cap, v) == SliceAssign(row, from, Min(cap, i), v)
FillRow(row, from, i, cap, v) == SliceAssign(row, from, Min(cap, i) + 1, v)

----------------------------------------------------------------------------
(* gillespie_algorithm_one_step (nucleo.py): one trajectory of the loop    *)
(* over trajectories; args.alpha is its row alpha_matrix[_]                *)

\* the initialisation of a trajectory, shared by the one-step and the
\* two-step engine
StartTrajectory ==
    \/ /\ folding(args.alpha, args.origin) = {}
       /\ pc' = "raise"
       /\ UNCHANGED engVars
    \/ /\ \E true_origin \in folding(args.alpha, args.origin) :
             /\ x' = true_origin
             /\ prev_x' = true_origin
             /\ ox' = true_origin
       /\ t' = 0
       /\ i0' = 0
       /\ results' = [Full(args.tmax \div args.dt, NaN) EXCEPT ![1] = 0]
       /\ t_list' = <<0>>
       /\ x_list' = <<0>>
       /\ pc' = "loop"

one_step_start ==
    /\ fn = "gillespie_algorithm_one_step"
    /\ pc = "call"
    /\ StartTrajectory
    /\ UNCHANGED <<fn, args, raw, ret>>

\* if x >= (Lmax - origin)
AtTrackEndNoOrigin(a, pos) == pos >= a.Lmax
AtTrackEnd(a, pos) == pos >= a.Lmax - a.origin

\* one pass through the body of "while (t<tmax)"
one_step_iteration ==
    /\ fn = "gillespie_algorithm_one_step"
    /\ pc = "loop"
    /\ t < args.tmax
    /\ IF ~BroadcastOk(KernelSlice(args, x, args.Lmax), LandscapeSlice(args, x, args.Lmax))
       THEN /\ pc' = "raise"
            /\ UNCHANGED engVars
       ELSE LET r_tot == RTot(args, x, args.Lmax)
            IN \E wait \in WaitingTimes(r_tot), r0 \in 0..(R0Den - 1) :
                 LET now == Clamp(TAdd(t, wait))
                     i == TimeIndex(now, args.dt)
                     cap == TimeIndex(args.tmax, args.dt)
                     di == SelectJump(args, x, args.Lmax, r0, r_tot)
                 IN /\ t' = now
                    /\ IF StallFires(args, r0, r_tot)
                       THEN /\ results' = FillRow(results, i0, i, cap, prev_x)
                            /\ pc' = "Absorbed"
                            /\ UNCHANGED <<x, prev_x, ox, i0, t_list, x_list>>
                       ELSE IF AtTrackEnd(args, x)
                       THEN /\ results' = FillRow(results, i0, i, cap, NaN)
                            /\ pc' = "OutOfRange"
                            /\ UNCHANGED <<x, prev_x, ox, i0, t_list, x_list>>
                       ELSE IF di = -1
                       THEN /\ pc' = "raise"
                            /\ UNCHANGED <<x, prev_x, ox, i0, results, t_list, x_list>>
                       ELSE /\ x' = x + di
                            /\ t_list' = Append(t_list, now)
                            /\ x_list' = Append(x_list, x' - ox)
                            /\ results' = FillRow(results, i0, i, cap, prev_x - ox)
                            /\ i0' = i + 1
                            /\ prev_x' = x'
                            /\ pc' = "loop"
                            /\ ox' = ox
    /\ UNCHANGED <<fn, args, raw, ret>>

\* the loop condition fails: the trajectory is stored
one_step_time_up ==
    /\ fn = "gillespie_algorithm_one_step"
    /\ pc = "loop"
    /\ ~(t < args.tmax)
    /\ pc' = "TimeUp"
    /\ UNCHANGED <<fn, args, raw, ret, engVars>>

----------------------------------------------------------------------------
(* gillespie_algorithm_two_steps (nucleo.py)                               *)

two_steps_start ==
    /\ fn = "gillespie_algorithm_two_steps"
    /\ pc = "call"
    /\ StartTrajectory
    /\ UNCHANGED <<fn, args, raw, ret>>

\* np.random.choice(L, p=p): the jump lengths of positive probability
JumpChoices(a) == {d \in 0..(Len(a.p) - 1) : At(a.p, d) > 0}

\* if x >= (np.max(L) - origin), L = np.arange(Lmin, Lmax, bps)
PastTrackEnd(a, pos) == pos >= (a.Lmax - 1) - a.origin

\* if np.isinf(t_bind): t = 1e308, followed by t += t_bind
BindClockClamped(clock, t_bind) == TAdd(clock, Clamp(t_bind))
BindClock(clock, t_bind) ==
    TAdd(IF t_bind = Inf THEN Sentinel ELSE clock, t_bind)

\* if np.isinf(t_rest): t_rest = 1e308, followed by t += t_rest
RestClockDropped(clock, t_rest) == clock
RestClock(clock, t_rest) == TAdd(clock, Clamp(t_rest))

\* r0_bind < r_bind * (1 - lmbda)
BindingSucceeds(a, r0, r_bind) ==
    r0 * One * BetaDen < r_bind * (BetaDen - a.lmbda) * R0Den

two_steps_iteration ==
    /\ fn = "gillespie_algorithm_two_steps"
    /\ pc = "loop"
    /\ t < args.tmax
    /\ \E x_jump \in JumpChoices(args) :
         LET landed == x + x_jump
             cap == TimeIndex(args.tmax, args.dt)
         IN IF PastTrackEnd(args, landed)
            THEN /\ x' = landed
                 /\ results' = FillRow(results, i0, TimeIndex(t, args.dt), cap, NaN)
                 /\ pc' = "OutOfRange"
                 /\ UNCHANGED <<t, prev_x, ox, i0, t_list, x_list>>
            ELSE \E t_bind \in WaitingTimes(args.rtot_bind), r0_bind \in 0..(R0Den - 1) :
                   LET r_bind == PyAt(args.alpha, landed)
                       bound == BindClock(t, t_bind)
                       LE == BindingSucceeds(args, r0_bind, r_bind)
                   IN \E t_rest \in IF LE THEN WaitingTimes(args.rtot_rest) ELSE {0} :
                        LET rested == IF LE THEN RestClock(bound, t_rest) ELSE bound
                            kept == IF LE THEN landed ELSE prev_x
                        IN /\ t' = rested
                           /\ x' = kept
                           /\ t_list' = t_list \o <<bound, rested>>
                           /\ x_list' = x_list \o <<landed - ox, kept - ox>>
                           /\ ox' = ox
                           /\ IF rested = Inf
                              THEN /\ pc' = "raise"
                                   /\ UNCHANGED <<prev_x, i0, results>>
                              ELSE /\ results' = FillRow(results, i0, TimeIndex(rested, args.dt),
                                                         cap, prev_x - ox)
                                   /\ i0' = TimeIndex(rested, args.dt) + 1
                                   /\ prev_x' = kept
                                   /\ pc' = "loop"
    /\ UNCHANGED <<fn, args, raw, ret>>

two_steps_time_up ==
    /\ fn = "gillespie_algorithm_two_steps"
    /\ pc = "loop"
    /\ ~(t < args.tmax)
    /\ pc' = "TimeUp"
    /\ UNCHANGED <<fn, args, raw, ret, engVars>>

----------------------------------------------------------------------------
(* gillespie_algorithm_in_position (marcand.py): the dense row holds, for  *)
(* every position, the time at which it was passed; ox holds origin, the   *)
(* offset of the recorded positions                                        *)

in_position_start ==
    /\ fn = "gillespie_algorithm_in_position"
    /\ pc = "call"
    /\ \/ /\ folding(args.alpha, args.origin) = {}
          /\ pc' = "raise"
          /\ UNCHANGED engVars
       \/ /\ \E true_origin \in folding(args.alpha, args.origin) :
                /\ x' = true_origin
                /\ prev_x' = true_origin
                /\ x_list' = <<true_origin - args.origin>>
          /\ ox' = args.origin
          /\ t' = 0
          /\ i0' = 0
          /\ results' = [Full(args.x_max + 1, NaN) EXCEPT ![1] = 0]
          /\ t_list' = <<0>>
          /\ pc' = "loop"
    /\ UNCHANGED <<fn, args, raw, ret>>

\* one pass through the body of "while x < x_max"
in_position_iteration ==
    /\ fn = "gillespie_algorithm_in_position"
    /\ pc = "loop"
    /\ x < args.x_max
    /\ IF ~BroadcastOk(KernelSlice(args, x, args.l_max), LandscapeSlice(args, x, args.l_max))
       THEN /\ pc' = "raise"
            /\ UNCHANGED engVars
       ELSE LET r_tot == RTot(args, x, args.l_max)
            IN \E wait \in WaitingTimes(r_tot), r0 \in 0..(R0Den - 1) :
                 LET now == Clamp(TAdd(t, wait))
                     di == SelectJump(args, x, args.l_max, r0, r_tot)
                 IN /\ t' = now
                    /\ IF StallFires(args, r0, r_tot)
                       THEN /\ results' = FillRow(results, i0, x, args.x_max, now)
                            /\ pc' = "Absorbed"
                            /\ UNCHANGED <<x, prev_x, ox, i0, t_list, x_list>>
                       ELSE IF di = -1
                       THEN /\ pc' = "raise"
                            /\ UNCHANGED <<x, prev_x, ox, i0, results, t_list, x_list>>
                       ELSE /\ x' = x + di
                            /\ t_list' = Append(t_list, now)
                            /\ x_list' = Append(x_list, x' - args.origin)
                            /\ results' = FillRow(results, i0, x', args.x_max, now)
                            /\ i0' = x' + 1
                            /\ pc' = "loop"
                            /\ UNCHANGED <<prev_x, ox>>
    /\ UNCHANGED <<fn, args, raw, ret>>

\* the loop condition fails: the motor has passed x_max
in_position_arrived ==
    /\ fn = "gillespie_algorithm_in_position"
    /\ pc = "loop"
    /\ ~(x < args.x_max)
    /\ pc' = "Arrived"
    /\ UNCHANGED <<fn, args, raw, ret, engVars>>

----------------------------------------------------------------------------
(* Inputs of the engines *)

\* rows of TrackLen sites, free or obstacle
Landscapes == [1..TrackLen -> {0, One}]

\* the scenario landscape: 2 obstacle sites then 3 free sites, 4 times
ScenarioLandscape == Tile(Full(2, 0) \o Full(3, One), 4)

\* all the mass of the kernel at jump length 1
SingleStepKernel(n) == [k \in 1..n |-> IF k = 2 THEN 1 ELSE 0]

\* jump kernels over n sites, as weights: all mass at length 1, uniform
\* over the lengths 1..n-1, all mass at length 2, mass at lengths 0 and 1
Kernels(n) ==
    {SingleStepKernel(n),
     [k \in 1..n |-> IF k >= 2 THEN 1 ELSE 0],
     [k \in 1..n |-> IF k = 3 THEN 1 ELSE 0],
     [k \in 1..n |-> IF k <= 2 THEN 1 ELSE 0]}

DtValues == {1, 2}
RateValues == {0, 1}

OneStepArgs ==
    [alpha : Landscapes, p : Kernels(TrackLen), beta : 0..BetaDen,
     Lmax : {TrackLen}, origin : 0..(TrackLen - 1),
     tmax : {MaxTime}, dt : DtValues]
    \cup
    [alpha : {ScenarioLandscape}, p : {SingleStepKernel(Len(ScenarioLandscape))},
     beta : {0}, Lmax : {Len(ScenarioLandscape)},
     origin : 0..(Len(ScenarioLandscape) - 1),
     tmax : {MaxTime}, dt : {1}]

TwoStepsArgs ==
    [alpha : Landscapes, p : Kernels(TrackLen), lmbda : 0..BetaDen,
     rtot_bind : RateValues, rtot_rest : RateValues,
     Lmax : {TrackLen}, origin : 0..(TrackLen - 1),
     tmax : {MaxTime}, dt : DtValues]

InPositionArgs ==
    {a \in [alpha : Landscapes, p : Kernels(TrackLen), beta : 0..BetaDen,
            l_max : {TrackLen}, x_max : 1..(TrackLen - 1),
            origin : 0..(TrackLen - 1)] : a.origin <= a.x_max}
    \cup
    [alpha : {ScenarioLandscape}, p : {SingleStepKernel(Len(ScenarioLandscape))},
     beta : {0}, l_max : {Len(ScenarioLandscape)},
     x_max : {Len(ScenarioLandscape) - 1},
     origin : 0..(Len(ScenarioLandscape) - 1)]

InitEngines ==
    /\ \/ fn = "gillespie_algorithm_one_step" /\ args \in OneStepArgs
       \/ fn = "gillespie_algorithm_two_steps" /\ args \in TwoStepsArgs
       \/ fn = "gillespie_algorithm_in_position" /\ args \in InPositionArgs
    /\ pc = "call"
    /\ raw = <<>>
    /\ ret = <<>>
    /\ EngineIdle

NextEngines ==
    \/ one_step_start
    \/ one_step_iteration
    \/ one_step_time_up
    \/ two_steps_start
    \/ two_steps_iteration
    \/ two_steps_time_up
    \/ in_position_start
    \/ in_position_iteration
    \/ in_position_arrived

SpecEngines == InitEngines /\ [][NextEngines]_vars

----------------------------------------------------------------------------
(* Properties of the trajectories *)

Engines ==
    {"gillespie_algorithm_one_step", "gillespie_algorithm_two_steps",
     "gillespie_algorithm_in_position"}

\* the trajectory has ended and is stored in t_matrix / x_matrix
Terminated == pc \in {"Absorbed", "OutOfRange", "TimeUp", "Arrived"}

LastOf(q) == q[Len(q)]

\* C4: in every engine the recorded time list starts at 0 and never
\* decreases.
C4_TimesNonDecreasing ==
    (fn \in Engines /\ pc # "call" /\ t_list # <<>>)
    => /\ t_list[1] = 0
       /\ \A k \in 1..(Len(t_list) - 1) : t_list[k] <= t_list[k + 1]

\* a trajectory has recorded a finite time and then two clamped times
C4_Witness ==
    /\ fn = "gillespie_algorithm_in_position"
    /\ Len(t_list) >= 4
    /\ t_list[2] > 0
    /\ t_list[3] = Sentinel
    /\ t_list[4] = Sentinel

\* C5 (as claimed): when a trajectory has terminated, its last recorded
\* time is the time of the event that terminated it (the clock t at which
\* the boundary was crossed or the stall fired, or the sentinel 1e308).
C5_LastSampleIsTerminalEvent ==
    (fn \in Engines /\ Terminated) => LastOf(t_list) = t

\* C6 (as claimed): no engine records an infinite time, and no trajectory
\* clock is left infinite: an infinite waiting time is replaced by the
\* sentinel 1e308 before it is used.
C6_NoInfiniteTime ==
    fn \in Engines
    => /\ t # Inf
       /\ \A k \in 1..Len(t_list) : t_list[k] # Inf

\* C8 (as claimed): with beta = 1 at every site, a one-step trajectory that
\* has gone through its first event is Absorbed at its start position, with
\* no jump recorded.
C8_StallOneAbsorbsAtOnce ==
    (/\ fn = "gillespie_algorithm_one_step"
     /\ args.beta = BetaDen
     /\ pc \in {"loop", "Absorbed", "OutOfRange", "TimeUp"}
     /\ t > 0)
    => /\ pc = "Absorbed"
       /\ x = ox
       /\ Len(x_list) = 1

\* the scenario: 2 obstacle then 3 free sites 4 times, all the kernel mass at
\* length 1, no stall
InScenario ==
    /\ fn \in {"gillespie_algorithm_one_step", "gillespie_algorithm_in_position"}
    /\ args.alpha = ScenarioLandscape
    /\ args.p = SingleStepKernel(Len(ScenarioLandscape))
    /\ args.beta = 0

\* every recorded event moved the motor by exactly 1 site
StepsOfOne == \A k \in 1..(Len(x_list) - 1) : x_list[k + 1] - x_list[k] = 1

\* number of recorded events, start position and track length
Events == Len(x_list) - 1
StartPosition == x - Events
TrackLength == Len(args.alpha)

C9_WitnessArrived ==
    /\ InScenario
    /\ fn = "gillespie_algorithm_in_position"
    /\ pc = "Arrived"
    /\ Events > 3

----------------------------------------------------------------------------
(* calculate_distribution (nucleo.py and marcand.py)                       *)
(*                                                                         *)
(* Samples and bin edges are integers; NaN is a sample that compares False *)
(* with every edge.  An entry of the returned distribution is the pair     *)
(* <<count, total>> standing for count / total; <<0, 0>> is 0/0 = NaN.     *)

MaxData == 3      \* largest number of samples
MaxSample == 3    \* largest sample value
MaxLastBin == 2   \* largest last_bin
MaxWidth == 2     \* largest bin_width

\* np.arange(first_bin, int(last_bin) + bin_width, bin_width)
bins_array(first_bin, last_bin, bin_width) ==
    LET stop == last_bin + bin_width
        n == (stop - first_bin + bin_width - 1) \div bin_width
    IN [k \in 1..Max(n, 0) |-> first_bin + (k - 1) * bin_width]

\* sorted_data.searchsorted(edge, side): the number of samples before edge
\* ('left') or up to edge ('right'); NaN sorts after every number
SearchSorted(data, edge, side) ==
    Cardinality({k \in 1..Len(data) :
        /\ data[k] # NaN
        /\ IF side = "left" THEN data[k] < edge ELSE data[k] <= edge})

\* np.histogram(data, bins=bins_array)[0]: every bin is half-open but the
\* last, which is closed
Histogram(data, edges) ==
    LET cum_n == [k \in 1..Len(edges) |->
                    SearchSorted(data, edges[k], IF k < Len(edges) THEN "left" ELSE "right")]
    IN [k \in 1..(Len(edges) - 1) |-> cum_n[k + 1] - cum_n[k]]

\* if np.sum(distrib) > 0: distrib / np.sum(distrib), else zeros_like
NormalizeUnguarded(counts) ==
    [k \in 1..Len(counts) |-> <<counts[k], SumSeq(counts)>>]
NormalizeByLength(counts) ==
    [k \in 1..Len(counts) |-> <<counts[k], IF SumSeq(counts) > 0 THEN Len(counts) + SumSeq(counts) ELSE 1>>]
Normalize(counts) ==
    IF SumSeq(counts) > 0
    THEN [k \in 1..Len(counts) |-> <<counts[k], SumSeq(counts)>>]
    ELSE [k \in 1..Len(counts) |-> <<0, 1>>]

\* the returned distrib
calculate_distribution(data, first_bin, last_bin, bin_width) ==
    IF Len(data) = 0 THEN <<>>
    ELSE Normalize(Histogram(data, bins_array(first_bin, last_bin, bin_width)))

call_calculate_distribution ==
    /\ fn = "calculate_distribution"
    /\ pc = "call"
    /\ ret' = calculate_distribution(args.data, args.first_bin, args.last_bin,
                                     args.bin_width)
    /\ pc' = "return"
    /\ UNCHANGED <<fn, args, raw, engVars>>

Samples == (-1..MaxSample) \cup {NaN}

DistributionArgs ==
    [data : UNION {[1..n -> Samples] : n \in 0..MaxData},
     first_bin : {0}, last_bin : 1..MaxLastBin, bin_width : 1..MaxWidth]

InitDistribution ==
    /\ fn = "calculate_distribution"
    /\ args \in DistributionArgs
    /\ pc = "call"
    /\ raw = <<>>
    /\ ret = <<>>
    /\ EngineIdle

NextDistribution == call_calculate_distribution

SpecDistribution == InitDistribution /\ [][NextDistribution]_vars

\* the sum of the distribution is 1: its entries share the denominator
\* total, and their counts add up to it
SumsToOne(distrib) ==
    /\ distrib # <<>>
    /\ \A k \in 1..Len(distrib) : distrib[k][2] = distrib[1][2]
    /\ distrib[1][2] # 0
    /\ SumSeq([k \in 1..Len(distrib) |-> distrib[k][1]]) = distrib[1][2]

AllZero(distrib) ==
    \A k \in 1..Len(distrib) : distrib[k][1] = 0 /\ distrib[k][2] # 0

NoNaN(distrib) == \A k \in 1..Len(distrib) : distrib[k][2] # 0

\* a sample lies on the bin grid [first edge, last edge]
OnGrid(a, v) ==
    LET edges == bins_array(a.first_bin, a.last_bin, a.bin_width)
    IN v # NaN /\ edges[1] <= v /\ v <= edges[Len(edges)]

SomeSampleOnGrid(a) == \E k \in 1..Len(a.data) : OnGrid(a, a.data[k])

----------------------------------------------------------------------------
(* calculate_fpt_matrix (nucleo.py and marcand.py)                         *)
(*                                                                         *)
(* A trajectory is the sequence of its samples <<position, time>>, that is *)
(* x_matrix[n] zipped with t_matrix[n].  The entries of the returned       *)
(* matrix are pairs <<count, total>> standing for count / total, as in     *)
(* calculate_distribution.  Rows are numbered from 0, columns from 1.      *)

MaxFptNt == 2     \* largest number of short trajectories
MaxFptLen == 4    \* largest number of samples of a single long trajectory
MaxFptX == 2      \* largest recorded position
MaxFptTmax == 2   \* largest tmax, in ticks

\* np.concatenate(lists)
RECURSIVE Concatenate(_)
Concatenate(lists) ==
    IF lists = <<>> THEN <<>> ELSE Head(lists) \o Concatenate(Tail(lists))

\* the largest element of a non-empty sequence of integers
MaxOf(q) == CHOOSE u \in {q[k] : k \in 1..Len(q)} : \A k \in 1..Len(q) : q[k] <= u

\* math.ceil(a / b) for b > 0
CeilDiv(a, b) == -((-a) \div b)

\* x_max = np.max(np.concatenate(matrix_x))
FptXMax(trajectories) ==
    MaxOf(Concatenate([n \in 1..Len(trajectories) |->
            [k \in 1..Len(trajectories[n]) |-> trajectories[n][k][1]]]))

\* n_bins = math.ceil(x_max / t_bin)
FptNBins(trajectories, t_bin) == CeilDiv(FptXMax(trajectories), t_bin)

\* couples: every sample as <<x - sublist[0], min(math.floor(ti), tmax)>>
Couples(trajectories, tmax) ==
    Concatenate([n \in 1..Len(trajectories) |->
        [k \in 1..Len(trajectories[n]) |->
            <<trajectories[n][k][1] - trajectories[n][1][1],
              Min(TimeIndex(trajectories[n][k][2], 1), tmax)>>]])

\* the loop over couples: couple k adds 1 to
\* fpt_matrix[time][bin_index_start:bin_index_end] when its position is
\* not 0; couples[k - 1] is the last couple for k = 0
FptCounts(couples, tmax, t_bin, n_bins) ==
    LET before(k) == IF k = 1 THEN couples[Len(couples)] ELSE couples[k - 1]
        Adds(k, row, col) ==
            /\ couples[k][1] # 0
            /\ couples[k][2] = row
            /\ PyBound(n_bins, before(k)[1] \div t_bin) <= col - 1
            /\ col - 1 < PyBound(n_bins, couples[k][1] \div t_bin)
    IN [row \in 0..tmax |->
          [col \in 1..n_bins |->
              Cardinality({k \in 1..Len(couples) : Adds(k, row, col)})]]

\* fpt_number = np.sum(fpt_matrix, axis=0)
ColumnSums(matrix, rows, n_bins) ==
    [col \in 1..n_bins |-> SumSeq([r \in 1..(rows + 1) |-> matrix[r - 1][col]])]

\* not_fpt_number = nt - fpt_number
NotFptNumberClipped(nt, fpt_number) ==
    [col \in 1..Len(fpt_number) |-> Max(nt - fpt_number[col], 0)]
NotFptNumber(nt, fpt_number) ==
    [col \in 1..Len(fpt_number) |-> nt - fpt_number[col]]

\* np.vstack((fpt_matrix, not_fpt_number)): the extra row is row tmax + 1
Stacked(matrix, tmax, extra) ==
    [row \in 0..(tmax + 1) |-> IF row <= tmax THEN matrix[row] ELSE extra]

\* fpt_matrix / np.sum(fpt_matrix, axis=0)
FptResults(stacked, tmax, n_bins) ==
    LET total == ColumnSums(stacked, tmax + 1, n_bins)
    IN [row \in 0..(tmax + 1) |->
          [col \in 1..n_bins |-> <<stacked[row][col], total[col]>>]]

calculate_fpt_matrix ==
    /\ fn = "calculate_fpt_matrix"
    /\ pc = "call"
    /\ LET n_bins == FptNBins(args.trajectories, args.t_bin)
           nt == Len(args.trajectories)
       IN IF n_bins < 0
          THEN pc' = "raise" /\ UNCHANGED <<raw, ret>>
          ELSE LET fpt_matrix == FptCounts(Couples(args.trajectories, args.tmax),
                                           args.tmax, args.t_bin, n_bins)
                   fpt_number == ColumnSums(fpt_matrix, args.tmax, n_bins)
                   stacked == Stacked(fpt_matrix, args.tmax, NotFptNumber(nt, fpt_number))
               IN /\ raw' = stacked
                  /\ ret' = [fpt_results |-> FptResults(stacked, args.tmax, n_bins),
                             fpt_number |-> fpt_number]
                  /\ pc' = "return"
    /\ UNCHANGED <<fn, args, engVars>>

\* the times a trajectory can record for tmax: whole ticks up to past tmax,
\* and the sentinel
FptTimes(tmax) == (0..(tmax + 1)) \cup {Sentinel}

\* trajectories of n samples: the first at time 0 and at a position in
\* starts, times never decreasing
FptTrajectories(n, starts, tmax) ==
    {q \in [1..n -> (-1..MaxFptX) \X FptTimes(tmax)] :
        /\ q[1][1] \in starts
        /\ q[1][2] = 0
        /\ \A k \in 2..n : q[k][1] >= q[1][1] /\ q[k][2] >= q[k - 1][2]}

FptBins == {1, 2}

\* several trajectories of at most two samples, or one longer trajectory
FptArgs ==
    [trajectories : UNION {[1..n -> FptTrajectories(1, {0}, MaxFptTmax)
                                    \cup FptTrajectories(2, {0}, MaxFptTmax)] :
                           n \in 1..MaxFptNt},
     tmax : {MaxFptTmax}, t_bin : FptBins]
    \cup
    [trajectories : {<<q>> : q \in UNION {FptTrajectories(n, {-1, 0}, MaxFptTmax) :
                                          n \in 1..MaxFptLen}},
     tmax : {MaxFptTmax}, t_bin : FptBins]

InitFpt ==
    /\ fn = "calculate_fpt_matrix"
    /\ args \in FptArgs
    /\ pc = "call"
    /\ raw = <<>>
    /\ ret = <<>>
    /\ EngineIdle

NextFpt == calculate_fpt_matrix

SpecFpt == InitFpt /\ [][NextFpt]_vars

FptReturned == fn = "calculate_fpt_matrix" /\ pc = "return"

FptColumns == 1..Len(ret.fpt_number)

\* the sum of the counts of a column over the rows 0..last
CountsInColumn(matrix, last, col) ==
    SumSeq([r \in 1..(last + 1) |-> matrix[r - 1][col]])

\* a column of the returned matrix: the sum of its numerators and its
\* common denominator
ColumnNumerator(col) ==
    SumSeq([r \in 1..(args.tmax + 2) |-> ret.fpt_results[r - 1][col][1]])
ColumnTotal(col) == ret.fpt_results[0][col][2]

\* C11 (as claimed): every column of the returned matrix, summed over the
\* time rows and the 'not yet arrived' row, equals the trajectory count nt.
C11_ReturnedColumnsSumToNt ==
    FptReturned
    => \A col \in FptColumns :
         /\ ColumnTotal(col) # 0
         /\ ColumnNumerator(col) = Len(args.trajectories) * ColumnTotal(col)

\* C11 (amended): every column of the matrix of counts stacked with the
\* 'not yet arrived' row sums to the trajectory count nt, fpt_number plus
\* the 'not yet arrived' entry being nt; the returned matrix is that matrix
\* divided by its column sums, so that each of its columns sums to 1.
C11_StackedColumnsSumToNt ==
    FptReturned
    => \A col \in FptColumns :
         /\ CountsInColumn(raw, args.tmax + 1, col) = Len(args.trajectories)
         /\ ret.fpt_number[col] + raw[args.tmax + 1][col] = Len(args.trajectories)
         /\ ColumnTotal(col) = Len(args.trajectories)
         /\ ColumnNumerator(col) = ColumnTotal(col)

\* two trajectories, one of which has passed a bin the other has not
C11_Witness ==
    /\ FptReturned
    /\ Len(args.trajectories) = 2
    /\ \E col \in FptColumns :
         /\ ret.fpt_number[col] = 1
         /\ raw[args.tmax + 1][col] = 1
         /\ ret.fpt_results[args.tmax + 1][col] = <<1, 2>>

----------------------------------------------------------------------------
(* The random generator, and one run of sw_nucleo (landscape, kernel,      *)
(* one-step engine) drawing from it                                        *)
(*                                                                         *)
(* The state of numpy's global generator is a number in 0..RngMod-1; every *)
(* draw advances it and is a function of the new state.  np.random.seed(k) *)
(* sets the state to k; np.random.seed() without argument sets it from     *)
(* fresh operating-system entropy, that is to any state.                   *)

RngMod == 8       \* number of states of the generator
RngMul == 5
RngInc == 3

RngStates == 0..(RngMod - 1)

\* the state after one draw
NextRng(g) == (RngMul * g + RngInc) % RngMod

\* np.random.rand() read from the state g reached by the draw, as r0
RandOf(g) == g % R0Den

\* np.random.randint(low, high) read from the state g reached by the draw
RandintOf(g, low, high) == low + (g % (high - low))

\* -np.log(u) / rate for the draw u = RandOf(g): inf for rate 0 or u = 0,
\* shorter for larger u
WaitOf(g, rate) ==
    IF rate = 0 \/ RandOf(g) = 0 THEN Inf
    ELSE 1 + ((R0Den - 1 - RandOf(g)) % MaxDelta)

\* np.sort(q)
RECURSIVE NpSort(_)
NpSort(q) ==
    IF q = <<>> THEN <<>>
    ELSE LET m == CHOOSE k \in 1..Len(q) : \A j \in 1..Len(q) : q[k] <= q[j]
         IN <<q[m]>> \o NpSort(SubSeq(q, 1, m - 1) \o SubSeq(q, m + 1, Len(q)))

\* the state after n draws from g
RECURSIVE RngAfter(_, _)
RngAfter(g, n) == IF n = 0 THEN g ELSE RngAfter(NextRng(g), n - 1)

\* alpha_random with the state `entropy` installed by its np.random.seed():
\* the row, and the state it leaves
SeededAlphaRandom(a, entropy) ==
    LET T == RandomT(a.s, a.l, a.Lmax)
        max_pos == RandomMaxPos(a.s, a.l, a.Lmax)
        draws == [k \in 1..T |-> RandintOf(RngAfter(entropy, k), 0, max_pos + 1)]
    IN [row |-> alpha_random_at(a.s, a.l, a.alphao, a.alphaf, Lmin, a.Lmax, bps,
                                NpSort(draws)),
        rng |-> RngAfter(entropy, T)]

\* the number of calls of alpha_random made by alpha_matrix_calculation
Reseeds(a) ==
    CASE a.alpha_choice = "one_random" -> 1
      [] a.alpha_choice = "ntrandom" -> a.nt
      [] OTHER -> 0

\* alpha_matrix_calculation entered with generator state g, entropy[k]
\* being the state installed by the k-th np.random.seed(): the corrected
\* matrix and the state left
SeededLandscape(a, g, entropy) ==
    LET generated ==
          CASE a.alpha_choice = "periodic" ->
                 [matrix |-> Full(a.nt, alpha_periodic(a.s, a.l, a.alphao, a.alphaf, Lmin, a.Lmax, bps)),
                  rng |-> g]
            [] a.alpha_choice = "constantmean" ->
                 [matrix |-> Full(a.nt, alpha_constant(a.s, a.l, a.alphao, a.alphaf, Lmin, a.Lmax, bps)),
                  rng |-> g]
            [] a.alpha_choice = "one_random" ->
                 [matrix |-> Full(a.nt, SeededAlphaRandom(a, entropy[1]).row),
                  rng |-> SeededAlphaRandom(a, entropy[1]).rng]
            [] a.alpha_choice = "ntrandom" ->
                 [matrix |-> [k \in 1..a.nt |-> SeededAlphaRandom(a, entropy[k]).row],
                  rng |-> SeededAlphaRandom(a, entropy[a.nt]).rng]
    IN [matrix |-> CorrectRows(generated.matrix, a.alphao, a.alphaf, a.bpmin),
        rng |-> generated.rng]

\* folding drawing from the generator: the start position (-1 when it
\* raises IndexError) and the state left
SeededFolding(landscape, first_origin, g) ==
    LET choices == SortedSeq(folding(landscape, first_origin))
        drawn == first_origin # 0 /\ PyAt(landscape, first_origin) = 0
    IN IF choices = <<>> THEN [origin |-> -1, rng |-> g]
       ELSE IF ~drawn THEN [origin |-> choices[1], rng |-> g]
       ELSE [origin |-> choices[1 + (NextRng(g) % Len(choices))], rng |-> NextRng(g)]

\* the while loop of gillespie_algorithm_one_step drawing from the
\* generator, entered at position pos and time clock with the lists tl, xl
RECURSIVE SeededLoop(_, _, _, _, _, _, _)
SeededLoop(a, pos, clock, g, tl, xl, start) ==
    IF ~(clock < a.tmax) THEN [t_list |-> tl, x_list |-> xl, rng |-> g, raised |-> FALSE]
    ELSE IF ~BroadcastOk(KernelSlice(a, pos, a.Lmax), LandscapeSlice(a, pos, a.Lmax))
    THEN [t_list |-> tl, x_list |-> xl, rng |-> g, raised |-> TRUE]
    ELSE LET r_tot == RTot(a, pos, a.Lmax)
             g1 == NextRng(g)
             g2 == NextRng(g1)
             now == Clamp(TAdd(clock, WaitOf(g1, r_tot)))
             r0 == RandOf(g2)
             di == SelectJump(a, pos, a.Lmax, r0, r_tot)
         IN IF StallFires(a, r0, r_tot) \/ AtTrackEnd(a, pos)
            THEN [t_list |-> tl, x_list |-> xl, rng |-> g2, raised |-> FALSE]
            ELSE IF di = -1
            THEN [t_list |-> tl, x_list |-> xl, rng |-> g2, raised |-> TRUE]
            ELSE SeededLoop(a, pos + di, now, g2, Append(tl, now),
                            Append(xl, pos + di - start), start)

\* one trajectory of gillespie_algorithm_one_step on the row alpha
SeededTrajectory(a, alpha, g) ==
    LET placed == SeededFolding(alpha, a.origin, g)
        b == [alpha |-> alpha, p |-> a.p, beta |-> a.beta, Lmax |-> a.Lmax,
              origin |-> a.origin, tmax |-> a.tmax, dt |-> a.dt]
    IN IF placed.origin = -1
       THEN [t_list |-> <<>>, x_list |-> <<>>, rng |-> g, raised |-> TRUE]
       ELSE SeededLoop(b, placed.origin, 0, placed.rng, <<0>>, <<0>>, placed.origin)

\* the loop over trajectories, from row n on, collecting into t_matrix and
\* x_matrix; "raise" when a trajectory raised
RECURSIVE SeededEngine(_, _, _, _, _, _)
SeededEngine(a, matrix, n, g, t_matrix, x_matrix) ==
    IF n > Len(matrix) THEN [t_matrix |-> t_matrix, x_matrix |-> x_matrix]
    ELSE LET done == SeededTrajectory(a, matrix[n], g)
         IN IF done.raised THEN "raise"
            ELSE SeededEngine(a, matrix, n + 1, done.rng,
                              Append(t_matrix, done.t_list), Append(x_matrix, done.x_list))

\* sw_nucleo from the landscape to the engine, after np.random.seed(a.seed)
SeededRun(a, entropy) ==
    LET landscape == SeededLandscape(a, a.seed, entropy)
    IN SeededEngine(a, landscape.matrix, 1, landscape.rng, <<>>, <<>>)

\* the first of two runs with the same seed and parameters
first_run ==
    /\ fn = "sw_nucleo"
    /\ pc = "call"
    /\ \E entropy \in [1..Reseeds(args) -> RngStates] :
          raw' = SeededRun(args, entropy)
    /\ pc' = "second"
    /\ UNCHANGED <<fn, args, ret, engVars>>

second_run ==
    /\ fn = "sw_nucleo"
    /\ pc = "second"
    /\ \E entropy \in [1..Reseeds(args) -> RngStates] :
          ret' = SeededRun(args, entropy)
    /\ pc' = "return"
    /\ UNCHANGED <<fn, args, raw, engVars>>

SeededArgs ==
    [alpha_choice : alpha_functions, s : 1..2, l : 1..2, bpmin : {1, 2},
     alphao : {0}, alphaf : {One}, Lmax : {TrackLen}, nt : 1..2,
     p : {SingleStepKernel(TrackLen), [k \in 1..TrackLen |-> IF k >= 2 THEN 1 ELSE 0]},
     beta : {0, 1}, origin : {0, 1}, tmax : {MaxTime}, dt : {1},
     seed : RngStates]

InitSeeded ==
    /\ fn = "sw_nucleo"
    /\ args \in SeededArgs
    /\ pc = "call"
    /\ raw = <<>>
    /\ ret = <<>>
    /\ EngineIdle

NextSeeded == first_run \/ second_run

SpecSeeded == InitSeeded /\ [][NextSeeded]_vars

\* C12 (as claimed): two runs with the same seed and the same parameters
\* produce the same t_matrix and x_matrix, in every landscape mode.
C12_SameSeedSameTrajectories ==
    (fn = "sw_nucleo" /\ pc = "return") => raw = ret

\* two runs with the same seed produce the same trajectories in the modes
\* that never call alpha_random
C12_SameSeedSameTrajectoriesFixedModes ==
    (fn = "sw_nucleo" /\ pc = "return" /\ Reseeds(args) = 0) => raw = ret

----------------------------------------------------------------------------
(* execute_in_parallel (nucleo.py and marcand.py)                          *)
(*                                                                         *)
(* raw maps every dispatched combination (its index in params_list) to the *)
(* state of its future; ret holds the futures whose result was asked for   *)
(* (collected) and those whose failure was printed (reported).             *)

MaxParams == 3    \* largest number of parameter combinations
MaxTasks == 2     \* largest number of tasks (SLURM_NTASKS)
MaxWorkers == 2   \* largest number of worker processes

execution_modes == {"PSMN", "PC", "SNAKEVIZ"}

\* the exceptions the processing of a combination raises, all of them
\* subclasses of Exception
Exceptions == {"ValueError", "IndexError", "OverflowError"}

\* except Exception as e
CaughtNever(outcome) == FALSE
Caught(outcome) == outcome \in Exceptions

\* chunk_size, start, end and params_list[start:end], as Python indices
ParamsListTaskEven(n, num_tasks, task_id) ==
    LET chunk_size == n \div num_tasks
        start == task_id * chunk_size
    IN {k \in 0..(n - 1) : PyBound(n, start) <= k /\ k < PyBound(n, start + chunk_size)}
ParamsListTask(n, num_tasks, task_id) ==
    LET chunk_size == n \div num_tasks
        start == task_id * chunk_size
        end == IF task_id < num_tasks - 1 THEN start + chunk_size ELSE n
    IN {k \in 0..(n - 1) : PyBound(n, start) <= k /\ k < PyBound(n, end)}

\* the combinations handed to process_function in a mode
Dispatched(a) ==
    CASE a.execution_mode = "PSMN" -> ParamsListTask(a.n, a.num_tasks, a.task_id)
      [] a.execution_mode \in {"PC", "SNAKEVIZ"} -> 0..(a.n - 1)
      [] OTHER -> {}

Finished(status) == status = "ok" \/ status \in Exceptions

\* the executor is created and every combination submitted, or the
\* sequential loop is entered, or no mode matches and None is returned
sweep_dispatch ==
    /\ fn = "execute_in_parallel"
    /\ pc = "call"
    /\ raw' = [k \in Dispatched(args) |-> "pending"]
    /\ ret' = [collected |-> {}, reported |-> {}]
    /\ pc' = CASE args.execution_mode \in {"PSMN", "PC"} -> "pool"
               [] args.execution_mode = "SNAKEVIZ" -> "sequential"
               [] OTHER -> "return"
    /\ UNCHANGED <<fn, args, engVars>>

\* a free worker process takes a pending combination
worker_start ==
    /\ fn = "execute_in_parallel"
    /\ pc = "pool"
    /\ Cardinality({k \in DOMAIN raw : raw[k] = "running"}) < args.num_processes
    /\ \E k \in DOMAIN raw :
         /\ raw[k] = "pending"
         /\ raw' = [raw EXCEPT ![k] = "running"]
    /\ UNCHANGED <<fn, args, pc, ret, engVars>>

\* process_function returns or raises in the worker
worker_finish ==
    /\ fn = "execute_in_parallel"
    /\ pc = "pool"
    /\ \E k \in DOMAIN raw, outcome \in {"ok"} \cup Exceptions :
         /\ raw[k] = "running"
         /\ raw' = [raw EXCEPT ![k] = outcome]
    /\ UNCHANGED <<fn, args, pc, ret, engVars>>

\* as_completed yields a finished future; future.result() in try / except
collect ==
    /\ fn = "execute_in_parallel"
    /\ pc = "pool"
    /\ \E k \in DOMAIN raw :
         /\ Finished(raw[k])
         /\ k \notin ret.collected
         /\ IF raw[k] = "ok"
            THEN /\ ret' = [ret EXCEPT !.collected = @ \cup {k}]
                 /\ pc' = pc
            ELSE IF Caught(raw[k])
            THEN /\ ret' = [collected |-> ret.collected \cup {k},
                            reported |-> ret.reported \cup {k}]
                 /\ pc' = pc
            ELSE /\ ret' = [ret EXCEPT !.collected = @ \cup {k}]
                 /\ pc' = "raise"
    /\ UNCHANGED <<fn, args, raw, engVars>>

\* every future was collected: the with block is left and None returned
pool_return ==
    /\ fn = "execute_in_parallel"
    /\ pc = "pool"
    /\ ret.collected = DOMAIN raw
    /\ pc' = "return"
    /\ UNCHANGED <<fn, args, raw, ret, engVars>>

\* one pass of "for params in params_list": process_function in try / except
sequential_step ==
    /\ fn = "execute_in_parallel"
    /\ pc = "sequential"
    /\ \E k \in DOMAIN raw, outcome \in {"ok"} \cup Exceptions :
         /\ raw[k] = "pending"
         /\ \A j \in DOMAIN raw : j < k => raw[j] # "pending"
         /\ raw' = [raw EXCEPT ![k] = outcome]
         /\ IF outcome = "ok"
            THEN /\ ret' = [ret EXCEPT !.collected = @ \cup {k}]
                 /\ pc' = pc
            ELSE IF Caught(outcome)
            THEN /\ ret' = [collected |-> ret.collected \cup {k},
                            reported |-> ret.reported \cup {k}]
                 /\ pc' = pc
            ELSE /\ ret' = [ret EXCEPT !.collected = @ \cup {k}]
                 /\ pc' = "raise"
    /\ UNCHANGED <<fn, args, engVars>>

\* the sequential loop is exhausted
sequential_return ==
    /\ fn = "execute_in_parallel"
    /\ pc = "sequential"
    /\ \A k \in DOMAIN raw : raw[k] # "pending"
    /\ pc' = "return"
    /\ UNCHANGED <<fn, args, raw, ret, engVars>>

SweepArgs ==
    {a \in [execution_mode : execution_modes \cup {"TEST"}, n : 1..MaxParams,
            num_tasks : 1..MaxTasks, task_id : 0..(MaxTasks - 1),
            num_processes : 1..MaxWorkers] :
        a.task_id < a.num_tasks}

InitSweep ==
    /\ fn = "execute_in_parallel"
    /\ args \in SweepArgs
    /\ pc = "call"
    /\ raw = <<>>
    /\ ret = <<>>
    /\ EngineIdle

NextSweep ==
    \/ sweep_dispatch
    \/ worker_start
    \/ worker_finish
    \/ collect
    \/ pool_return
    \/ sequential_step
    \/ sequential_return

SpecSweep == InitSweep /\ [][NextSweep]_vars

SweepRunning == fn = "execute_in_parallel" /\ pc # "call"

\* C13: an exception raised while a combination is processed is caught and
\* reported, every other dispatched combination is still run to completion,
\* and the sweep returns normally: it never raises, it can always go on
\* until it returns, and when it has returned every dispatched combination
\* has finished and every failed one was reported.
C13_SweepSurvivesFailures ==
    SweepRunning
    => /\ pc # "raise"
       /\ pc # "return" => ENABLED NextSweep
       /\ \A k \in ret.reported : raw[k] \in Exceptions
       /\ pc = "return"
          => /\ DOMAIN raw = Dispatched(args)
             /\ \A k \in DOMAIN raw :
                  /\ Finished(raw[k])
                  /\ raw[k] \in Exceptions => k \in ret.reported

\* a pool sweep has returned after its first combination failed and a
\* later one succeeded
C13_Witness ==
    /\ fn = "execute_in_parallel"
    /\ pc = "return"
    /\ args.execution_mode = "PC"
    /\ args.n = 3
    /\ raw[0] \in Exceptions
    /\ raw[1] = "ok"
    /\ raw[2] \in Exceptions
    /\ ret.reported = {0, 2}

----------------------------------------------------------------------------
(* Output names of a sweep: choose_configuration, the combinations built   *)
(* by execute_in_parallel and the title built by sw_nucleo / sw_marcand    *)
(*                                                                         *)
(* lmbda and the rates are numbers in units of 1/10000.  A title is the    *)
(* tuple of its formatted fields; the file written for a combination is    *)
(* <title>/<path>_<title>.parquet in the working directory of the sweep.   *)

GridPoints == 2   \* number of values kept of each np.arange of a grid

\* the first GridPoints values of np.arange(start, stop, step)
Arange(start, stop, step) ==
    {start + k * step : k \in {j \in 0..(GridPoints - 1) : start + j * step < stop}}

\* f"{v:.2e}": v rounded to three significant digits
Format2e(v) == IF v < 1000 THEN v ELSE ((v + 5) \div 10) * 10

\* int(v) of an integer-valued grid value
IntOf(v) == v

nucleo_configs == {"NU", "BP", "LSLOW", "LSHIGH", "TEST", "MAP"}

\* choose_configuration of nucleo.py: the grid of a configuration
NucleoGrid(config) ==
    LET Grid(choices, ss, ls, bpmins, mus, thetas, n) ==
            [alpha_choice : choices, s : ss, l : ls, bpmin : bpmins,
             mu : mus, theta : thetas,
             lmbda : {2000}, rtot_bind : {1667}, rtot_rest : {1667}, nt : {n}]
    IN CASE config = "NU" ->
              Grid({"ntrandom", "periodic", "constantmean"}, {150}, {10}, {0},
                   Arange(100, 605, 5), Arange(1, 101, 1), 10000)
         [] config = "BP" ->
              Grid({"ntrandom"}, {150}, {10}, {5, 10, 15},
                   Arange(100, 605, 5), Arange(1, 101, 1), 10000)
         [] config = "LSLOW" ->
              Grid({"ntrandom"}, {150}, {5, 15, 20, 25}, {0},
                   Arange(100, 605, 5), Arange(1, 101, 1), 10000)
         [] config = "LSHIGH" ->
              Grid({"ntrandom"}, {150}, {50, 100, 150}, {0},
                   Arange(100, 605, 5), Arange(1, 101, 1), 10000)
         [] config = "TEST" ->
              Grid({"constantmean"}, {75}, {150}, {5}, {300}, {50}, 2)
         [] config = "MAP" ->
              Grid({"constantmean"}, {0}, {150}, {0}, {300}, {50}, 1000)

marcand_configs == {"DATA", "TEST"}

\* choose_configuration of marcand.py: the grid of a configuration
MarcandGrid(config) ==
    CASE config = "DATA" ->
           [alpha_choice : {"array"}, gap : Arange(5, 35 + 5, 5), bpmin : {0, 2},
            mu : Arange(1, 200 + 1, 2), theta : Arange(1, 100 + 1, 2), nt : {10000}]
      [] config = "TEST" ->
           [alpha_choice : {"array"}, gap : {35}, bpmin : {0},
            mu : {100}, theta : {50}, nt : {10000}]

\* title of sw_nucleo
NucleoTitle(c) ==
    <<c.alpha_choice, c.s, c.l, c.bpmin, c.mu, c.theta,
      Format2e(c.lmbda), Format2e(c.rtot_bind), Format2e(c.rtot_rest), c.nt>>

\* title of sw_marcand
MarcandTitleWithBpmin(c) ==
    <<c.alpha_choice, IntOf(c.gap), c.bpmin, IntOf(c.mu), IntOf(c.theta), c.nt>>
MarcandTitle(c) ==
    <<c.alpha_choice, IntOf(c.gap), IntOf(c.mu), IntOf(c.theta), c.nt>>

\* os.path.join(title, f'{file}_{title}.parquet')
DataFileName(path, title) == <<title, path, title>>

\* two workers of a nucleo sweep build the file names of two combinations
nucleo_titles ==
    /\ fn = "sw_nucleo"
    /\ pc = "titles"
    /\ raw' = DataFileName("ncl", NucleoTitle(args.first))
    /\ ret' = DataFileName("ncl", NucleoTitle(args.second))
    /\ pc' = "written"
    /\ UNCHANGED <<fn, args, engVars>>

\* two workers of a marcand sweep build the file names of two combinations
marcand_titles ==
    /\ fn = "sw_marcand"
    /\ pc = "titles"
    /\ raw' = DataFileName("mrc", MarcandTitle(args.first))
    /\ ret' = DataFileName("mrc", MarcandTitle(args.second))
    /\ pc' = "written"
    /\ UNCHANGED <<fn, args, engVars>>

\* the pairs of distinct combinations of a grid
PairsOf(grid) == {c \in [first : grid, second : grid] : c.first # c.second}

InitTitles ==
    /\ \/ /\ fn = "sw_nucleo"
          /\ args \in UNION {PairsOf(NucleoGrid(config)) : config \in nucleo_configs}
       \/ /\ fn = "sw_marcand"
          /\ args \in UNION {PairsOf(MarcandGrid(config)) : config \in marcand_configs}
    /\ pc = "titles"
    /\ raw = <<>>
    /\ ret = <<>>
    /\ EngineIdle

NextTitles == nucleo_titles \/ marcand_titles

SpecTitles == InitTitles /\ [][NextTitles]_vars

\* C14 (as claimed): two distinct combinations of a configured grid never
\* get the same output file name.
C14_DistinctCombinationsDistinctFiles ==
    (fn \in {"sw_nucleo", "sw_marcand"} /\ pc = "written") => raw # ret

\* two distinct combinations of a configured grid of nucleo.py never get
\* the same output file name
C14_NucleoFilesDistinct ==
    (fn = "sw_nucleo" /\ pc = "written") => raw # ret

----------------------------------------------------------------------------
(* Unknown generation modes *)

\* the supported mode names of a landscape generator
SupportedModes(generator) ==
    IF generator = "alpha_matrix_calculation" THEN alpha_functions ELSE marcand_choices

\* C15: alpha_matrix_calculation and calculate_landscape raise for every
\* mode name outside their supported set, then returning no landscape, and
\* never raise for a supported mode, for which they return a landscape.
C15_UnknownModeRaises ==
    (fn \in {"alpha_matrix_calculation", "calculate_landscape"} /\ pc # "call")
    => /\ pc = "raise" <=> args.alpha_choice \notin SupportedModes(fn)
       /\ pc = "raise" => ret = <<>>
       /\ pc = "return" => Len(ret) = args.nt

\* a request with an unknown mode name has raised
C15_Witness ==
    /\ fn = "alpha_matrix_calculation"
    /\ pc = "raise"
    /\ args.alpha_choice = "unknown"
    /\ ret = <<>>

\* the same for calculate_landscape
C15_WitnessMarcand ==
    /\ fn = "calculate_landscape"
    /\ pc = "raise"
    /\ args.alpha_choice = "unknown"

----------------------------------------------------------------------------
(* proba_gamma (nucleo.py and marcand.py)                                  *)
(*                                                                         *)
(* args.pdf is the array gamma.pdf(L, a, scale) over the support L, as     *)
(* non-negative integer weights (0 where the density is 0 or underflows).  *)
(* The entries of the result are pairs <<weight, total>> standing for      *)
(* weight / total; <<0, 0>> is 0/0 = NaN.                                  *)

MaxSupport == 4   \* largest number of sites of the support L
MaxWeight == 2    \* largest weight of the density at a site

\* p_gamma / np.sum(p_gamma)
NormalizedKernel(p_gamma) ==
    [k \in 1..Len(p_gamma) |-> <<p_gamma[k], SumSeq(p_gamma)>>]

\* lines 218-220: numpy divides by a zero sum without raising
proba_gamma ==
    /\ fn = "proba_gamma"
    /\ pc = "call"
    /\ ret' = NormalizedKernel(args.pdf)
    /\ pc' = "return"
    /\ UNCHANGED <<fn, args, raw, engVars>>

KernelArgs == [pdf : UNION {[1..n -> 0..MaxWeight] : n \in 1..MaxSupport}]

InitKernel ==
    /\ fn = "proba_gamma"
    /\ args \in KernelArgs
    /\ pc = "call"
    /\ raw = <<>>
    /\ ret = <<>>
    /\ EngineIdle

NextKernel == proba_gamma

SpecKernel == InitKernel /\ [][NextKernel]_vars

\* C16 (as claimed): when the density has zero total mass over the support
\* proba_gamma raises, and it never returns an array obtained by dividing
\* by a zero sum.
C16_ZeroMassRaises ==
    (fn = "proba_gamma" /\ pc # "call")
    => /\ SumSeq(args.pdf) = 0 => pc = "raise"
       /\ pc = "return" => \A k \in 1..Len(ret) : ret[k][2] # 0

\* with a positive total mass the returned kernel sums to 1
C16_PositiveMassNormalized ==
    (fn = "proba_gamma" /\ pc = "return" /\ SumSeq(args.pdf) > 0)
    => SumSeq([k \in 1..Len(ret) |-> ret[k][1]]) = ret[1][2]

----------------------------------------------------------------------------
(* process_function and checking_inputs (nucleo.py)                        *)
(*                                                                         *)
(* The probabilities lmbda, alphao, alphaf and beta are in units of        *)
(* 1/BetaDen.  args.np_ints tells whether s, l, bpmin, mu and theta are    *)
(* numpy integers (as the grids of choose_configuration are) and           *)
(* args.py_ints whether bps, nt and tmax are Python ints (as in main).     *)

\* a <= b for floats: False when one of them is nan
PyLe(a, b) == a # NaN /\ b # NaN /\ a <= b

\* the modes checking_inputs accepts
checked_choices == {"constantmean", "periodic", "ntrandom"}

\* not isinstance(value, np.integer) or value < 0
BadCount(value, is_integer) == ~is_integer \/ value < 0

\* 0 <= value <= 1
InUnitIntervalAbove(value) == PyLe(value, BetaDen)
InUnitInterval(value) == PyLe(0, value) /\ PyLe(value, BetaDen)

\* checking_inputs raises ValueError
CheckingInputsRaises(a) ==
    \/ a.alpha_choice \notin checked_choices
    \/ \E value \in {a.s, a.l, a.bpmin} : BadCount(value, a.np_ints)
    \/ BadCount(a.mu, a.np_ints)
    \/ BadCount(a.theta, a.np_ints)
    \/ \E value \in {a.lmbda, a.alphao, a.alphaf, a.beta} : ~InUnitInterval(value)
    \/ a.Lmin # 0
    \/ a.Lmax <= a.Lmin
    \/ BadCount(a.bps, a.py_ints)
    \/ ~(0 <= a.origin /\ a.origin < a.Lmax)
    \/ BadCount(a.nt, a.py_ints)
    \/ BadCount(a.tmax, a.py_ints)
    \/ a.dt <= 0

\* process_function up to the return of checking_inputs
process_function_check ==
    /\ fn = "process_function"
    /\ pc = "call"
    /\ pc' = IF CheckingInputsRaises(args) THEN "raise" ELSE "checked"
    /\ UNCHANGED <<fn, args, raw, ret, engVars>>

\* process_function calls sw_nucleo
process_function_run ==
    /\ fn = "process_function"
    /\ pc = "checked"
    /\ pc' = "sw_nucleo"
    /\ UNCHANGED <<fn, args, raw, ret, engVars>>

ProcessArgs ==
    [alpha_choice : alpha_functions \cup {"unknown"},
     s : {-1, 1}, l : {1}, bpmin : {0}, mu : {1}, theta : {1}, np_ints : BOOLEAN,
     lmbda : {-1, 0, BetaDen, BetaDen + 1}, alphao : {0, BetaDen + 1},
     alphaf : {-1, BetaDen}, beta : {0, 1, BetaDen + 1, NaN},
     Lmin : {0, 1}, Lmax : {0, 1, 2}, bps : {1}, origin : {0, 2},
     nt : {1}, tmax : {1}, py_ints : BOOLEAN, dt : {-1, 0, 1}]

InitProcess ==
    /\ fn = "process_function"
    /\ args \in ProcessArgs
    /\ pc = "call"
    /\ raw = <<>>
    /\ ret = <<>>
    /\ EngineIdle

NextProcess == process_function_check \/ process_function_run

SpecProcess == InitProcess /\ [][NextProcess]_vars

\* a probability lies outside [0, 1]
OutsideUnitInterval(value) == value = NaN \/ value < 0 \/ value > BetaDen

\* the configuration errors of the claim
BadConfiguration(a) ==
    \/ a.alpha_choice \notin alpha_functions
    \/ \E value \in {a.lmbda, a.alphao, a.alphaf, a.beta} : OutsideUnitInterval(value)
    \/ a.Lmax <= a.Lmin
    \/ a.dt <= 0

\* C17: an unknown generation mode, a probability parameter outside [0,1],
\* a track with Lmax <= Lmin or a non-positive time step makes
\* checking_inputs raise, and sw_nucleo is then never called: the
\* combination is checked before anything is computed.
C17_BadConfigurationFailsFast ==
    (fn = "process_function" /\ pc # "call" /\ BadConfiguration(args))
    => pc = "raise"

\* a combination whose only error is a negative probability has raised
C17_Witness ==
    /\ fn = "process_function"
    /\ pc = "raise"
    /\ args.alpha_choice = "periodic"
    /\ args.np_ints /\ args.py_ints
    /\ args.s = 1
    /\ args.lmbda = -1
    /\ args.alphao = 0 /\ args.alphaf = BetaDen /\ args.beta = 0
    /\ args.Lmin = 0 /\ args.Lmax = 2 /\ args.origin = 0
    /\ args.dt = 1

\* a valid combination reaches sw_nucleo
C17_WitnessValid ==
    /\ fn = "process_function"
    /\ pc = "sw_nucleo"
    /\ ~BadConfiguration(args)

----------------------------------------------------------------------------
(* Dwell-time fits of sw_nucleo: extracting_taus and find_dwell_times      *)
(*                                                                         *)
(* scipy's curve_fit is not computed: what each call does (the fitted      *)
(* pair, or the RuntimeError of a fit that does not converge) is an input, *)
(* args.fit, indexed by the distribution being fitted.                     *)

MaxPoints == 3     \* number of bin centres
MaxDensity == 1    \* largest value of a distribution at a bin
FitY0 == 1
FitTau == 2

\* what one call of curve_fit(exp_decay, ...) does
CurveFitOutcomes ==
    {[error |-> "", y0 |-> FitY0, tau |-> FitTau],
     [error |-> "RuntimeError", y0 |-> NaN, tau |-> NaN]}

fitted_distributions == <<"fb", "fr", "rb", "rr">>

\* the fits of extracting_taus that raise, in call order
FailedFits(fit) ==
    SelectSeq(fitted_distributions, LAMBDA name : fit[name].error # "")

\* safe_fit: try curve_fit, except: return nan, nan
safe_fit(outcome) ==
    IF outcome.error # "" THEN <<NaN, NaN>> ELSE <<outcome.y0, outcome.tau>>

\* np.argmax: the first index (0-based) of the maximum
ArgMax(distrib) ==
    CHOOSE k \in 0..(Len(distrib) - 1) :
        /\ \A j \in 1..Len(distrib) : distrib[j] <= distrib[k + 1]
        /\ \A j \in 1..k : distrib[j] < distrib[k + 1]

\* points[(points >= xmin) & (points <= xmax)], xmin = points[argmax(distrib)]
FitRange(points, distrib, xmax) ==
    SelectSeq(points, LAMBDA p : p >= points[ArgMax(distrib) + 1] /\ p <= xmax)

\* extracting_taus: four unguarded fits in a row
extracting_taus ==
    /\ fn = "dwell_times"
    /\ pc = "call"
    /\ LET failed == FailedFits(args.fit)
       IN  IF failed # <<>>
           THEN /\ pc' = "raise"
                /\ raw' = <<args.fit[failed[1]].error>>
           ELSE /\ pc' = "extracted"
                /\ raw' = [name \in {"fb", "fr", "rb", "rr"} |-> args.fit[name].tau]
    /\ UNCHANGED <<fn, args, ret, engVars>>

\* find_dwell_times
find_dwell_times ==
    /\ fn = "dwell_times"
    /\ pc = "extracted"
    /\ LET x_fit_fwd == FitRange(args.points, args.distrib_forwards, args.xmax)
           x_fit_rev == FitRange(args.points, args.distrib_reverses, args.xmax)
       IN  IF Len(x_fit_fwd) < 2 \/ Len(x_fit_rev) < 2
           THEN /\ pc' = "raise"
                /\ ret' = <<"ValueError">>
           ELSE /\ pc' = "return"
                /\ ret' = [tau_forwards |-> safe_fit(args.fit.forwards)[2],
                           tau_reverses |-> safe_fit(args.fit.reverses)[2],
                           y0_forwards |-> safe_fit(args.fit.forwards)[1],
                           y0_reverses |-> safe_fit(args.fit.reverses)[1]]
    /\ UNCHANGED <<fn, args, raw, engVars>>

DwellArgs ==
    [fit : [{"fb", "fr", "rb", "rr", "forwards", "reverses"} -> CurveFitOutcomes],
     points : {[k \in 1..MaxPoints |-> k]},
     distrib_forwards : [1..MaxPoints -> 0..MaxDensity],
     distrib_reverses : {[k \in 1..MaxPoints |-> IF k = 1 THEN MaxDensity ELSE 0],
                         [k \in 1..MaxPoints |-> IF k = MaxPoints THEN MaxDensity ELSE 0]},
     xmax : {MaxPoints}]

InitDwell ==
    /\ fn = "dwell_times"
    /\ args \in DwellArgs
    /\ pc = "call"
    /\ raw = <<>>
    /\ ret = <<>>
    /\ EngineIdle

NextDwell == extracting_taus \/ find_dwell_times

SpecDwell == InitDwell /\ [][NextDwell]_vars

\* some exponential fit of the combination does not converge
SomeFitFails == \E name \in DOMAIN args.fit : args.fit[name].error # ""

\* C18: when an exponential fit does not converge, the decay constant of
\* that distribution is not-a-number and no exception leaves the fitting
\* steps of sw_nucleo.
C18_FitFailureYieldsNaN ==
    (fn = "dwell_times" /\ SomeFitFails) => pc # "raise"

\* inside find_dwell_times a fit that does not converge yields nan for its
\* own decay constant only and the function returns
C18_SafeFitYieldsNaN ==
    (fn = "dwell_times" /\ pc = "return")
    => /\ (ret.tau_forwards = NaN) = (args.fit.forwards.error # "")
       /\ (ret.tau_reverses = NaN) = (args.fit.reverses.error # "")

----------------------------------------------------------------------------
(* filtering_before_fit and fitting_in_two_steps (nucleo.py)               *)
(*                                                                         *)
(* Samples are NaN, Inf or a finite number.  The fitted numbers are not    *)
(* computed: raw keeps the samples each fit is run on and ret tells, for   *)
(* each output, whether it is None, nan or a float.                        *)

MaxFitLen == 4     \* longest mean trajectory
MaxBound == 3      \* largest bound_low and bound_high

\* ~np.isnan(data) & ~np.isnan(std) & ~np.isinf(data) & ~np.isinf(std)
ValidIdx(data, std) ==
    {k \in 1..Len(data) : data[k] \notin {NaN, Inf} /\ std[k] \notin {NaN, Inf}}

\* a[valid_idx]
Masked(a, valid_idx) == SelectSeq([k \in 1..Len(a) |-> <<k, a[k]>>],
                                  LAMBDA e : e[1] \in valid_idx)

\* a[valid_idx] without the index
Values(a, valid_idx) ==
    LET kept == Masked(a, valid_idx) IN [k \in 1..Len(kept) |-> kept[k][2]]

\* filtering_before_fit: None when the lengths differ
filtering_before_fit(time, data, std) ==
    IF Len(time) = Len(data) /\ Len(data) = Len(std)
    THEN [none |-> FALSE,
          time |-> Values(time, ValidIdx(data, std)),
          data |-> Values(data, ValidIdx(data, std))]
    ELSE [none |-> TRUE, time |-> <<>>, data |-> <<>>]

\* len(positions) < max(bound_high, bound_low + 2)
TooFewSamples(n, bound_low, bound_high) == n < Max(bound_high, bound_low + 2)

\* not (len(times) <= bound_high + 1)
EnoughForPowerLawLoose(n, bound_high) == ~(n <= bound_high)
EnoughForPowerLaw(n, bound_high) == ~(n <= bound_high + 1)

\* np.mean of an array: nan (with a warning) when it is empty
MeanKind(a) == IF Len(a) = 0 THEN "nan" ELSE "float"

AllNone ==
    [vf |-> "None", Cf |-> "None", wf |-> "None", vf_std |-> "None",
     Cf_std |-> "None", wf_std |-> "None"]

fitting_in_two_steps ==
    /\ fn = "fitting_in_two_steps"
    /\ pc = "call"
    /\ LET filtered == filtering_before_fit(args.times, args.positions, args.deviations)
           times == PySlice(filtered.time, 1, Len(filtered.time))
           positions == PySlice(filtered.data, 1, Len(filtered.data))
           array_low == PySlice(positions, 0, args.bound_low)
           log_t_high == PySlice(times, args.bound_high, Len(times))
       IN  IF filtered.none
           THEN \* unpacking None into three names
                /\ pc' = "raise"
                /\ ret' = <<"TypeError">>
                /\ raw' = <<>>
           ELSE IF TooFewSamples(Len(filtered.data), args.bound_low, args.bound_high)
           THEN /\ pc' = "return"
                /\ ret' = AllNone
                /\ raw' = [times |-> filtered.time, array_low |-> <<>>, log_t_high |-> <<>>]
           ELSE IF ~EnoughForPowerLaw(Len(times), args.bound_high)
           THEN /\ pc' = "return"
                /\ ret' = [AllNone EXCEPT !.vf = MeanKind(array_low),
                                          !.vf_std = MeanKind(array_low)]
                /\ raw' = [times |-> times, array_low |-> array_low, log_t_high |-> <<>>]
           ELSE \* linregress on fewer than 2 samples: nan or ValueError,
                \* depending on the scipy version
                /\ pc' \in IF Len(log_t_high) < 2 THEN {"return", "raise"} ELSE {"return"}
                /\ ret' = IF pc' = "raise" THEN <<"ValueError">>
                          ELSE [vf |-> MeanKind(array_low), vf_std |-> MeanKind(array_low),
                                Cf |-> MeanKind(log_t_high), wf |-> MeanKind(log_t_high),
                                Cf_std |-> MeanKind(log_t_high),
                                wf_std |-> MeanKind(log_t_high)]
                /\ raw' = [times |-> times, array_low |-> array_low,
                           log_t_high |-> log_t_high]
    /\ UNCHANGED <<fn, args, engVars>>

\* the mean trajectory: sample k is taken at time k - 1
FitSamples(n) ==
    [times : {[k \in 1..n |-> k - 1]} \cup {[k \in 1..(n + 1) |-> k - 1]},
     positions : [1..n -> {1, NaN, Inf}],
     deviations : {Full(n, 0)} \cup {[k \in 1..n |-> IF k = n THEN Inf ELSE 0]},
     bound_low : (-1)..MaxBound,
     bound_high : (-1)..MaxBound]

FitArgs == UNION {FitSamples(n) : n \in 0..MaxFitLen}

InitFit ==
    /\ fn = "fitting_in_two_steps"
    /\ args \in FitArgs
    /\ pc = "call"
    /\ raw = <<>>
    /\ ret = <<>>
    /\ EngineIdle

NextFit == fitting_in_two_steps

SpecFit == InitFit /\ [][NextFit]_vars

\* the number of valid samples of the call
ValidCount == Cardinality(ValidIdx(args.positions, args.deviations))

FitReturned == fn = "fitting_in_two_steps" /\ pc = "return"

\* the regression of the call was run (on the samples raw.log_t_high)
RegressionRan ==
    /\ fn = "fitting_in_two_steps"
    /\ pc \in {"return", "raise"}
    /\ raw # <<>>
    /\ ~TooFewSamples(ValidCount, args.bound_low, args.bound_high)
    /\ (pc = "return" => ret.Cf # "None")

FitGated ==
    /\ (FitReturned /\ ValidCount < Max(args.bound_high, args.bound_low + 2))
       => ret = AllNone
    /\ (FitReturned /\ ret.vf # "None")
       => Len(raw.times) >= args.bound_low
    /\ RegressionRan => Len(raw.log_t_high) >= 2
    /\ (FitReturned /\ ret.Cf = "None")
       => (ret.wf = "None" /\ ret.Cf_std = "None" /\ ret.wf_std = "None")

C19_WitnessAllNone ==
    /\ FitReturned
    /\ args.bound_low = 1 /\ args.bound_high = 0
    /\ Len(args.positions) = MaxFitLen
    /\ ValidCount = 2
    /\ ret = AllNone

----------------------------------------------------------------------------
(* alpha_random: one call, with the positions it draws (nucleo.py)         *)

MaxRandomLmax == 6    \* longest track handed to alpha_random

\* modified_positions = sorted_positions + np.arange(len(sorted_positions)) * s
SortedPositions(sorted, s) == sorted
ModifiedPositions(sorted, s) == [k \in 1..Len(sorted) |-> sorted[k] + (k - 1) * s]

\* alpha_random: raw keeps modified_positions, ret the returned row
alpha_random_call ==
    /\ fn = "alpha_random"
    /\ pc = "call"
    /\ IF args.l + args.s = 0
       THEN \* Lmax / (l + s): ZeroDivisionError
            /\ pc' = "raise"
            /\ raw' = <<>>
            /\ ret' = <<"ZeroDivisionError">>
       ELSE \E sorted \in SortedDraws(RandomT(args.s, args.l, args.Lmax), 0,
                                      RandomMaxPos(args.s, args.l, args.Lmax)) :
            /\ pc' = "return"
            /\ raw' = ModifiedPositions(sorted, args.s)
            /\ ret' = alpha_random_at(args.s, args.l, args.alphao, args.alphaf,
                                      args.L_min, args.Lmax, args.bps, sorted)
    /\ UNCHANGED <<fn, args, engVars>>

RandomArgs ==
    [s : 0..MaxS, l : 0..MaxL, alphao : {0, 1}, alphaf : {1},
     L_min : {0}, Lmax : 1..MaxRandomLmax, bps : {1}]

InitRandom ==
    /\ fn = "alpha_random"
    /\ args \in RandomArgs
    /\ pc = "call"
    /\ raw = <<>>
    /\ ret = <<>>
    /\ EngineIdle

NextRandom == alpha_random_call

SpecRandom == InitRandom /\ [][NextRandom]_vars

\* the sites (0-based) of the block starting at position
BlockSites(position, s) == position..(position + s - 1)

\* the sites (0-based) of the row that hold the obstacle value
ObstacleSites(row, alphao) == {k \in 0..(Len(row) - 1) : row[k + 1] = alphao}

\* C20: on a track starting at 0 with one site per base pair, alpha_random
\* places exactly T = floor(Lmax / (l + s)) blocks of s sites, pairwise
\* disjoint and inside the track whatever positions are drawn, so that the
\* row holds exactly T * s obstacle sites.
C20_RandomBlocksFitTheTrack ==
    (fn = "alpha_random" /\ pc = "return")
    => /\ Len(raw) = args.Lmax \div (args.l + args.s)
       /\ Len(ret) = args.Lmax
       /\ \A k \in 1..Len(raw) : BlockSites(raw[k], args.s) \subseteq 0..(args.Lmax - 1)
       /\ \A j, k \in 1..Len(raw) :
            j # k => BlockSites(raw[j], args.s) \cap BlockSites(raw[k], args.s) = {}
       /\ args.alphao # args.alphaf
          => /\ ObstacleSites(ret, args.alphao)
                  = UNION {BlockSites(raw[k], args.s) : k \in 1..Len(raw)}
             /\ Cardinality(ObstacleSites(ret, args.alphao))
                  = (args.Lmax \div (args.l + args.s)) * args.s

\* two blocks of two sites were placed side by side at the end of the track
C20_Witness ==
    /\ fn = "alpha_random"
    /\ pc = "return"
    /\ args.s = 2
    /\ args.alphao # args.alphaf
    /\ Len(raw) = 2
    /\ raw[2] = raw[1] + 2
    /\ raw[2] + 2 = args.Lmax
    /\ Cardinality(ObstacleSites(ret, args.alphao)) = 4

----------------------------------------------------------------------------
(* Reaction selection of the one-step and in-position engines: one pass    *)
(* through the loop body from a start position, with the uniform variate   *)
(* r0 of the pass kept in raw.r0 (a multiple of 1/R0Den)                   *)

\* the track end handed to the slices: Lmax (nucleo) or l_max (marcand)
TrackEndOf(a) ==
    IF "Lmax" \in DOMAIN a THEN a.Lmax ELSE a.l_max

\* the pass from position pos with the variate r0
select_reaction(checks_track_end) ==
    /\ pc = "select"
    /\ LET last == TrackEndOf(args)
           r_tot == RTot(args, x, last)
           di == SelectJump(args, x, last, raw.r0, r_tot)
       IN IF ~BroadcastOk(KernelSlice(args, x, last), LandscapeSlice(args, x, last))
          THEN pc' = "raise" /\ x' = x
          ELSE IF StallFires(args, raw.r0, r_tot)
          THEN pc' = "Absorbed" /\ x' = x
          ELSE IF checks_track_end /\ AtTrackEnd(args, x)
          THEN pc' = "OutOfRange" /\ x' = x
          ELSE IF di = -1
          THEN pc' = "raise" /\ x' = x
          ELSE pc' = "Jumped" /\ x' = x + di
    /\ UNCHANGED <<fn, args, raw, ret, t, prev_x, ox, i0, results, t_list, x_list>>

\* lines 799-819 of nucleo.py
one_step_select ==
    /\ fn = "gillespie_algorithm_one_step"
    /\ select_reaction(TRUE)

\* lines 667-683 of marcand.py: no test of the track end
in_position_select ==
    /\ fn = "gillespie_algorithm_in_position"
    /\ select_reaction(FALSE)

InitSelection ==
    /\ \/ /\ fn = "gillespie_algorithm_one_step"
          /\ args \in [alpha : Landscapes, p : Kernels(TrackLen), beta : 0..BetaDen,
                       Lmax : {TrackLen}, origin : 0..(TrackLen - 1),
                       tmax : {MaxTime}, dt : {1}]
       \/ /\ fn = "gillespie_algorithm_in_position"
          /\ args \in [alpha : Landscapes, p : Kernels(TrackLen), beta : 0..BetaDen,
                       l_max : {TrackLen}, x_max : {TrackLen - 1},
                       origin : 0..(TrackLen - 1)]
    /\ pc = "select"
    /\ x \in folding(args.alpha, args.origin)
    /\ (fn = "gillespie_algorithm_in_position" => x < args.x_max)
    /\ prev_x = x
    /\ ox = x
    /\ raw \in [r0 : 0..(R0Den - 1)]
    /\ ret = <<>>
    /\ t = 0 /\ i0 = 0
    /\ results = <<>> /\ t_list = <<0>> /\ x_list = <<0>>

NextSelection == one_step_select \/ in_position_select

SpecSelection == InitSelection /\ [][NextSelection]_vars

\* a reaction was selected with the variate raw.r0
Selected == pc \in {"Absorbed", "OutOfRange", "Jumped", "raise"} /\ raw # <<>>

\* r0 = beta / r_tot exactly (r_tot > 0)
AtStallShare ==
    LET r_tot == RTot(args, prev_x, TrackEndOf(args))
    IN r_tot # 0 /\ raw.r0 * r_tot = BetaRate(args) * R0Den

\* C21: when the variate r0 equals the stall share beta / r_tot exactly
\* (r0 = 0 with beta = 0 included), the stall fires and no jump is
\* committed.
C21_StallWinsAtEquality ==
    (fn \in {"gillespie_algorithm_one_step", "gillespie_algorithm_in_position"}
     /\ Selected /\ AtStallShare)
    => (pc = "Absorbed" /\ x = prev_x)

\* the stall fires exactly when r0 is strictly below the stall share
C21_StallFiresStrictlyBelow ==
    (fn \in {"gillespie_algorithm_one_step", "gillespie_algorithm_in_position"}
     /\ Selected /\ pc # "raise")
    => LET r_tot == RTot(args, prev_x, TrackEndOf(args))
       IN (pc = "Absorbed") = (r_tot # 0 /\ raw.r0 * r_tot < BetaRate(args) * R0Den)

\* a jump was committed at r0 = beta / r_tot with beta > 0
C21_JumpAtEquality ==
    /\ Selected /\ AtStallShare
    /\ args.beta > 0
    /\ pc = "Jumped"
    /\ x > prev_x

----------------------------------------------------------------------------
(* Termination causes of the one-step engine *)

\* a jump of length 1 from pos stays on the track 0..Lmax-1
OnTrackJumpRemains(a, pos) == pos + 1 <= a.Lmax - 1

\* C22: the one-step engine ends a trajectory as OutOfRange only when the
\* motor has reached the end of the track: never while it sits on a site
\* from which an on-track jump remains.
C22_OutOfRangeOnlyAtTrackEnd ==
    (fn = "gillespie_algorithm_one_step" /\ pc = "OutOfRange")
    => ~OnTrackJumpRemains(args, x)

\* OutOfRange is the test x >= Lmax - origin on the absolute position
C22_OutOfRangeIsOriginOffset ==
    (fn = "gillespie_algorithm_one_step" /\ pc = "OutOfRange")
    => x >= args.Lmax - args.origin

----------------------------------------------------------------------------
(* The dense result row against the recorded lists (nucleo.py)             *)

\* flat rows and rows with one obstacle site
DenseLandscapes ==
    {Full(TrackLen, One)} \cup
    {[k \in 1..TrackLen |-> IF k = j THEN 0 ELSE One] : j \in 2..TrackLen}

\* rows of more than one slot for both time steps
DenseTmax == MaxTime + 1

DenseOneStepArgs ==
    [alpha : DenseLandscapes, p : Kernels(TrackLen), beta : {0, 1},
     Lmax : {TrackLen}, origin : {0, 1},
     tmax : {DenseTmax}, dt : DtValues]

DenseTwoStepsArgs ==
    [alpha : DenseLandscapes, p : Kernels(TrackLen), lmbda : {0, 1},
     rtot_bind : {1}, rtot_rest : RateValues,
     Lmax : {TrackLen}, origin : {0, 1},
     tmax : {DenseTmax}, dt : DtValues]

InitDense ==
    /\ \/ fn = "gillespie_algorithm_one_step" /\ args \in DenseOneStepArgs
       \/ fn = "gillespie_algorithm_two_steps" /\ args \in DenseTwoStepsArgs
    /\ pc = "call"
    /\ raw = <<>>
    /\ ret = <<>>
    /\ EngineIdle

NextDense ==
    \/ one_step_start
    \/ one_step_iteration
    \/ one_step_time_up
    \/ two_steps_start
    \/ two_steps_iteration
    \/ two_steps_time_up

SpecDense == InitDense /\ [][NextDense]_vars

\* an event has been recorded and the trajectory goes on or ran out of time
EventRecorded ==
    /\ fn \in {"gillespie_algorithm_one_step", "gillespie_algorithm_two_steps"}
    /\ pc \in {"loop", "TimeUp"}
    /\ Len(x_list) > 1

\* the slots (0-based) of the dense row filled so far
FilledSlots == 0..(Min(i0, Len(results)) - 1)

\* samples appended by one pass through the loop
SamplesPerPass == IF fn = "gillespie_algorithm_two_steps" THEN 2 ELSE 1

\* index in the lists of the last sample of pass j (of the start for j = 0)
LastSampleOfPass(j) == 1 + SamplesPerPass * j

\* the passes that ended strictly before the time of slot k
PassesEndedBefore(k) ==
    {j \in 1..((Len(t_list) - 1) \div SamplesPerPass) :
        t_list[LastSampleOfPass(j)] < k * args.dt}

\* the last recorded sample whose time is <= the time of slot k
LastSampleAtOrBefore(k) ==
    CHOOSE m \in 1..Len(t_list) :
        /\ t_list[m] <= k * args.dt
        /\ \A n \in (m + 1)..Len(t_list) : t_list[n] > k * args.dt

\* no recorded event falls exactly on the time of slot k
NoSampleAt(k) == \A m \in 2..Len(t_list) : t_list[m] # k * args.dt

\* C23: after every recorded event each filled slot k of the dense row holds
\* the position of the last recorded sample whose time is <= k*dt, in the
\* one-step and in the two-step engine (checked on the slots whose time is
\* the time of no event).
C23_RowAgreesWithLists ==
    EventRecorded
    => \A k \in FilledSlots :
         NoSampleAt(k) => results[k + 1] = x_list[LastSampleAtOrBefore(k)]

\* C23, amended: each filled slot k holds the position held at the end of
\* the last pass through the loop that ended strictly before k*dt (the
\* start position 0 when there is none): the sample of a binding attempt is
\* not in the row before its pass has ended.
C23_RowHoldsLastEndedPass ==
    EventRecorded
    => \A k \in FilledSlots :
         results[k + 1] = x_list[LastSampleOfPass(Cardinality(PassesEndedBefore(k)))]

\* two events of a one-step trajectory fell in the same slot of the row and
\* a later slot is filled
C23_Witness ==
    /\ EventRecorded
    /\ fn = "gillespie_algorithm_one_step"
    /\ args.dt = 2
    /\ Len(t_list) >= 3
    /\ \E m \in 2..(Len(t_list) - 1) :
         /\ TimeIndex(t_list[m], args.dt) = TimeIndex(t_list[m + 1], args.dt)
         /\ TimeIndex(t_list[m], args.dt) < Len(results)
         /\ x_list[m] # x_list[m + 1]
    /\ i0 >= 2

\* a two-step trajectory rested over a slot after a successful binding
C23_WitnessTwoSteps ==
    /\ EventRecorded
    /\ fn = "gillespie_algorithm_two_steps"
    /\ Len(t_list) >= 3
    /\ x_list[2] = x_list[3]
    /\ x_list[2] # 0
    /\ t_list[3] - t_list[2] >= 2 * args.dt
    /\ i0 <= Len(results)

----------------------------------------------------------------------------
(* The trailing slots of the dense row of a terminated one-step trajectory *)

\* the slots (0-based) from the first slot not filled by an event to the
\* end of the row
TrailingSlots == i0..(Len(results) - 1)

\* C24: once a one-step trajectory has terminated, every slot from the last
\* filled index to the end of the row holds the terminal position in
\* origin-relative coordinates after Absorbed, and is missing (NaN) after
\* OutOfRange.
C24_TrailingSlotsFollowCause ==
    fn = "gillespie_algorithm_one_step"
    => /\ pc = "Absorbed" => \A k \in TrailingSlots : results[k + 1] = x - ox
       /\ pc = "OutOfRange" => \A k \in TrailingSlots : results[k + 1] = NaN

\* after Absorbed the trailing slots up to the slot of the stall hold the
\* absolute position prev_x and the later ones stay missing; after
\* OutOfRange every trailing slot is missing
C24_TrailingSlotsAsFilled ==
    fn = "gillespie_algorithm_one_step"
    => /\ pc = "Absorbed"
          => \A k \in TrailingSlots :
               results[k + 1] = IF k <= TimeIndex(t, args.dt) THEN prev_x ELSE NaN
       /\ pc = "OutOfRange" => \A k \in TrailingSlots : results[k + 1] = NaN

----------------------------------------------------------------------------
(* The two samples of a cycle of the two-step engine *)

\* number of cycles recorded in the lists
Cycles == (Len(t_list) - 1) \div 2

\* cycle j recorded a successful binding: both samples at the post-jump
\* position, the second one later (or both at 1e308 / inf)
RecordedSuccess(j) ==
    /\ x_list[2 * j + 1] = x_list[2 * j]
    /\ \/ t_list[2 * j + 1] > t_list[2 * j]
       \/ t_list[2 * j] \in {Sentinel, Inf}

\* cycle j recorded a failed binding: the second sample back at the position
\* held before the cycle, at the time of the first
RecordedFailure(j) ==
    /\ x_list[2 * j + 1] = x_list[2 * j - 1]
    /\ t_list[2 * j + 1] = t_list[2 * j]

\* C25: every cycle of the two-step engine that does not hit the track end
\* appends exactly two samples, both at the post-jump position with the
\* second one later by the rest delay on a binding success, the second one
\* at the position held before the jump and at the time of the first on a
\* failure; the trajectory has an odd number of samples and the motor is
\* where the last sample says.
C25_TwoSamplesPerCycle ==
    (fn = "gillespie_algorithm_two_steps" /\ t_list # <<>>)
    => /\ Len(t_list) % 2 = 1
       /\ Len(x_list) = Len(t_list)
       /\ \A j \in 1..Cycles : RecordedSuccess(j) \/ RecordedFailure(j)
       /\ pc \in {"loop", "TimeUp"} => (x = prev_x /\ x - ox = LastOf(x_list))

\* a successful cycle followed by a failed one
C25_Witness ==
    /\ fn = "gillespie_algorithm_two_steps"
    /\ pc = "loop"
    /\ Cycles = 2
    /\ x_list[2] # x_list[1]
    /\ RecordedSuccess(1)
    /\ t_list[3] > t_list[2]
    /\ x_list[4] # x_list[3]
    /\ RecordedFailure(2)
    /\ x_list[5] = x_list[3]

----------------------------------------------------------------------------
(* folding on an origin with no permissive run before it *)

\* the origin (> 0) is an obstacle site and no site before it is permissive
NoRunBackward(landscape, o) ==
    /\ o > 0
    /\ landscape[o + 1] = 0
    /\ \A k \in 1..o : landscape[k] # One

\* no site of the row is permissive
NoPermissiveSite(landscape) == \A k \in 1..Len(landscape) : landscape[k] # One

\* C26: when the origin (> 0) lies on an obstacle and no permissive run is
\* reachable backward from it, the backward search of folding runs
\* unbounded: the call never returns a start position and never stops with
\* a failure.
C26_BackwardSearchUnbounded ==
    (fn = "folding" /\ NoRunBackward(args.landscape, args.first_origin))
    => pc = "call"

\* C26, amended: the backward search is bounded by the row.  Its index runs
\* below 0 and reads the row from its end; with no permissive site in the
\* row it leaves the row and folding raises IndexError; with a permissive
\* site after the origin only, folding returns a negative position, the
\* index counted from the end of the row of a permissive site after the
\* origin.
C26_BackwardSearchBounded ==
    (fn = "folding" /\ pc # "call" /\ NoRunBackward(args.landscape, args.first_origin))
    => IF NoPermissiveSite(args.landscape)
       THEN pc = "raise"
       ELSE /\ pc = "return"
            /\ ret < 0
            /\ -Len(args.landscape) <= ret
            /\ PyAt(args.landscape, ret) = One

\* folding has raised on a row of obstacles only
C26_Witness ==
    /\ fn = "folding"
    /\ pc = "raise"
    /\ args.first_origin > 0
    /\ args.landscape = Full(MaxTrack, 0)

\* folding has returned a negative position
C26_WitnessWrapped ==
    /\ fn = "folding"
    /\ pc = "return"
    /\ NoRunBackward(args.landscape, args.first_origin)
    /\ ret < -1

----------------------------------------------------------------------------
(* The slices of the parameter grid taken by the tasks of a cluster run    *)
(* (mode PSMN of execute_in_parallel, nucleo.py and marcand.py): every     *)
(* task is a process of its own computing params_list[start:end] from its  *)
(* task id; raw collects the slices computed so far.                       *)

MaxGrid == 6          \* largest number of parameter combinations
MaxSliceTasks == 4    \* largest number of tasks

\* the task task_id computes its slice
task_slice(task_id) ==
    /\ fn = "params_list_task"
    /\ pc = "call"
    /\ task_id \notin {e.task_id : e \in raw}
    /\ raw' = raw \cup
              {[task_id |-> task_id,
                slice |-> ParamsListTask(args.n, args.num_tasks, task_id)]}
    /\ UNCHANGED <<fn, args, pc, ret, engVars>>

InitSlices ==
    /\ fn = "params_list_task"
    /\ args \in [n : 1..MaxGrid, num_tasks : 1..MaxSliceTasks]
    /\ pc = "call"
    /\ raw = {}
    /\ ret = <<>>
    /\ EngineIdle

NextSlices == \E task_id \in 0..(args.num_tasks - 1) : task_slice(task_id)

SpecSlices == InitSlices /\ [][NextSlices]_vars

\* every task has computed its slice
AllSliced == {e.task_id : e \in raw} = 0..(args.num_tasks - 1)

\* C27: for every num_tasks >= 1 and every grid size, the slices of the
\* task ids 0..num_tasks-1 are pairwise disjoint and together hold every
\* parameter combination exactly once.
C27_SlicesPartitionGrid ==
    fn = "params_list_task"
    => /\ \A d, e \in raw : d.task_id # e.task_id => d.slice \cap e.slice = {}
       /\ \A e \in raw : e.slice \subseteq 0..(args.n - 1)
       /\ AllSliced
          => \A k \in 0..(args.n - 1) :
               Cardinality({e \in raw : k \in e.slice}) = 1

\* three tasks have sliced a grid of 5 combinations: the last one took the
\* remainder
C27_Witness ==
    /\ fn = "params_list_task"
    /\ args.n = 5
    /\ args.num_tasks = 3
    /\ AllSliced
    /\ \E e \in raw : e.task_id = 2 /\ e.slice = {2, 3, 4}
    /\ \E e \in raw : e.task_id = 0 /\ e.slice = {0}

----------------------------------------------------------------------------
(* Progress of the one-step and in-position engines *)

StepEngines == {"gillespie_algorithm_one_step", "gillespie_algorithm_in_position"}

\* the position folding returned for the trajectory
StartOf == IF fn = "gillespie_algorithm_in_position" THEN x_list[1] + args.origin ELSE ox

\* C28: in the one-step and in-position engines every pass through the loop
\* either ends the trajectory or moves the motor forward by 1 site at
\* least, whatever the kernel holds at index 0 and also when the total
\* propensity is zero, so that a trajectory records at most (track end -
\* start position) jumps.
C28_EveryJumpMovesForward ==
    (fn \in StepEngines /\ x_list # <<>>)
    => /\ \A k \in 1..(Len(x_list) - 1) : x_list[k + 1] >= x_list[k] + 1
       /\ x = StartOf + (LastOf(x_list) - x_list[1])
       /\ Len(x_list) - 1 <= TrackEndOf(args) - StartOf

\* every step of these engines ends the trajectory or advances the motor
C28_EveryPassEndsOrAdvances ==
    [][(fn \in StepEngines /\ pc = "loop")
       => (pc' # "loop" \/ x' >= x + 1)]_vars

\* a jump was recorded from a position of zero total propensity, with a
\* kernel that has mass at length 0
C28_Witness ==
    /\ fn = "gillespie_algorithm_one_step"
    /\ pc = "loop"
    /\ args.p[1] > 0
    /\ args.beta = 0
    /\ Len(x_list) >= 3
    /\ t_list[2] < Sentinel
    /\ LastOf(t_list) = Sentinel

----------------------------------------------------------------------------
(* Positions of the one-step and in-position engines against the row *)

\* the trajectory has been started by folding
Started == pc \in {"loop", "Absorbed", "OutOfRange", "TimeUp", "Arrived"}

\* C29: for every origin in 0..Lmax-1 and every row of Lmax sites, the start
\* position returned by folding is >= 0 and every position of the motor
\* stays in 0..Lmax-1 (0..l_max-1 in the in-position engine), so that the
\* row and the stall array are never read outside these indices.
C29_PositionsInsideRow ==
    (fn \in StepEngines /\ Started)
    => /\ StartOf >= 0
       /\ 0 <= x
       /\ x <= TrackEndOf(args) - 1

\* positions never pass the last site
C29_PositionsBelowTrackEnd ==
    (fn \in StepEngines /\ Started) => x <= TrackEndOf(args) - 1

----------------------------------------------------------------------------
(* calculate_fpt_matrix on the trajectories of the two-step engine *)

MaxFptCycles == 2     \* largest number of cycles of a two-step trajectory
MaxFptJump == 2       \* longest jump of a cycle

\* the two samples a cycle appends after the sample last = <<x, t>>: the
\* landing at the bind time, then the same position after the rest (binding
\* success) or the position held before at the same time (failure)
CycleSamples(last) ==
    {<< <<last[1] + x_jump, last[2] + t_bind>>,
        <<IF LE THEN last[1] + x_jump ELSE last[1],
          last[2] + t_bind + (IF LE THEN 1 ELSE 0)>> >> :
        x_jump \in 1..MaxFptJump, t_bind \in 0..1, LE \in BOOLEAN}

\* the lists (x - ox, t) recorded by the two-step engine in c cycles
RECURSIVE TwoStepsRecorded(_)
TwoStepsRecorded(c) ==
    IF c = 0 THEN {<< <<0, 0>> >>}
    ELSE UNION {{q \o samples : samples \in CycleSamples(q[Len(q)])} :
                q \in TwoStepsRecorded(c - 1)}

\* one two-step trajectory, alone or with a trajectory that never moved
TwoStepsFptArgs ==
    [trajectories : UNION {{<<q>>, <<q, << <<0, 0>> >> >>} :
                           q \in UNION {TwoStepsRecorded(c) : c \in 0..MaxFptCycles}},
     tmax : {MaxFptTmax}, t_bin : FptBins]

InitFptTwoSteps ==
    /\ fn = "calculate_fpt_matrix"
    /\ args \in TwoStepsFptArgs
    /\ pc = "call"
    /\ raw = <<>>
    /\ ret = <<>>
    /\ EngineIdle

SpecFptTwoSteps == InitFptTwoSteps /\ [][NextFpt]_vars

\* a cycle of the first trajectory failed: its position went back
SomeCycleFailed ==
    \E k \in 2..Len(args.trajectories[1]) :
        args.trajectories[1][k][1] < args.trajectories[1][k - 1][1]

\* C30: every trajectory, of any engine, adds at most one count to each
\* position bin, so that fpt_number[b] <= nt and the 'not yet arrived' entry
\* nt - fpt_number[b] is >= 0 for every bin b.
C30_AtMostOneCountPerTrajectory ==
    FptReturned
    => \A col \in FptColumns :
         /\ ret.fpt_number[col] <= Len(args.trajectories)
         /\ raw[args.tmax + 1][col] >= 0

\* trajectories whose position never goes back are counted once per bin
C30_ForwardTrajectoriesCountedOnce ==
    (FptReturned /\ ~SomeCycleFailed)
    => \A col \in FptColumns :
         /\ ret.fpt_number[col] <= Len(args.trajectories)
         /\ raw[args.tmax + 1][col] >= 0

====
